---- MODULE Spec2Model ----
(***************************************************************************)
(* GitOps Compliance Engine: the policy engine (src/policies/engine.ts),   *)
(* the custom policy loader (src/policies/custom-loader.ts), the built-in  *)
(* catalog (src/policies/default-policies.ts) and the validate command     *)
(* (src/cli/commands/validate.ts) as a state machine.                      *)
(***************************************************************************)
EXTENDS Integers, Sequences, FiniteSets, TLC

(***************************************************************************)
(* JavaScript strings.  A string is a TLA+ string; String.prototype        *)
(* methods are computed character by character.                            *)
(***************************************************************************)
LowerAlphabet == "abcdefghijklmnopqrstuvwxyz"

UpperAlphabet == "ABCDEFGHIJKLMNOPQRSTUVWXYZ"

Digits == "0123456789"

CharAt(s, i) == SubSeq(s, i, i)

InAlphabet(c, alphabet) == \E i \in 1..Len(alphabet) : CharAt(alphabet, i) = c

IndexIn(c, alphabet) == CHOOSE i \in 1..Len(alphabet) : CharAt(alphabet, i) = c

UpChar(c) ==
  IF InAlphabet(c, LowerAlphabet) THEN CharAt(UpperAlphabet, IndexIn(c, LowerAlphabet)) ELSE c

LowChar(c) ==
  IF InAlphabet(c, UpperAlphabet) THEN CharAt(LowerAlphabet, IndexIn(c, UpperAlphabet)) ELSE c

RECURSIVE toUpperCase(_)
toUpperCase(s) ==
  IF Len(s) = 0 THEN "" ELSE UpChar(CharAt(s, 1)) \o toUpperCase(SubSeq(s, 2, Len(s)))

RECURSIVE toLowerCase(_)
toLowerCase(s) ==
  IF Len(s) = 0 THEN "" ELSE LowChar(CharAt(s, 1)) \o toLowerCase(SubSeq(s, 2, Len(s)))

\* String.prototype.includes: the empty string is included in every string.
includes(s, sub) ==
  \E i \in 1..(Len(s) - Len(sub) + 1) : SubSeq(s, i, i + Len(sub) - 1) = sub

startsWith(s, prefix) == Len(prefix) <= Len(s) /\ SubSeq(s, 1, Len(prefix)) = prefix

endsWith(s, suffix) ==
  Len(suffix) <= Len(s) /\ SubSeq(s, Len(s) - Len(suffix) + 1, Len(s)) = suffix

\* Array.prototype.includes over a list of strings.
InList(list, x) == \E i \in 1..Len(list) : list[i] = x

RECURSIVE join(_, _)
join(list, sep) ==
  IF Len(list) = 0 THEN ""
  ELSE IF Len(list) = 1 THEN list[1]
  ELSE list[1] \o sep \o join(Tail(list), sep)

\* Array.prototype.filter
filter(list, keep(_)) == SelectSeq(list, keep)

(***************************************************************************)
(* JavaScript values of a resource's property bag (Record<string,          *)
(* unknown>): a tag t and a payload v.                                     *)
(***************************************************************************)
Undef == [t |-> "undefined", v |-> "undefined"]

Null == [t |-> "null", v |-> "null"]

Bool(b) == [t |-> "boolean", v |-> b]

Str(s) == [t |-> "string", v |-> s]

Num(n) == [t |-> "number", v |-> n]

Obj(f) == [t |-> "object", v |-> f]

Arr(list) == [t |-> "array", v |-> list]

IsUndef(x) == x.t = "undefined"

IsNullish(x) == x.t \in {"undefined", "null"}

IsTrue(x) == x.t = "boolean" /\ x.v = TRUE

IsStr(x) == x.t = "string"

StrEq(x, s) == x.t = "string" /\ x.v = s

\* ToBoolean
Truthy(x) ==
  CASE x.t \in {"undefined", "null"} -> FALSE
    [] x.t = "boolean" -> x.v
    [] x.t = "string" -> x.v # ""
    [] x.t = "number" -> x.v # 0
    [] OTHER -> TRUE

\* a || b
OrElse(a, b) == IF Truthy(a) THEN a ELSE b

\* props[k] on a property bag held as a function from keys to values
Get(bag, k) == IF k \in DOMAIN bag THEN bag[k] ELSE Undef

\* x[k] / x?.[k] for a string key that is no index and no built-in member:
\* only an object has it; on a primitive or an array it is undefined.
Field(x, k) == IF x.t = "object" THEN Get(x.v, k) ELSE Undef

(***************************************************************************)
(* Resources and the outcome of one evaluate call.                         *)
(***************************************************************************)
Resource(id, type, file, properties) ==
  [id |-> id, type |-> type, properties |-> properties, location |-> [file |-> file]]

Prop(resource, k) == Get(resource.properties, k)

\* evaluate returned null
NoViolation == [kind |-> "null"]

\* evaluate raised a TypeError (a method call on a value that has no such method)
Thrown == [kind |-> "throw"]

\* evaluate returned a violation carrying this message
Fire(message) == [kind |-> "fire", message |-> message]

\* JSON.parse over the JSON texts of the model's universe; anything else raises.
JsonDocuments ==
  [s \in {"{\"Statement\":{\"Action\":\"*\"}}"} |->
     Obj([k \in {"Statement"} |-> Obj([a \in {"Action"} |-> Str("*")])])]

JSONparse(s) ==
  IF s \in DOMAIN JsonDocuments
  THEN [ok |-> TRUE, value |-> JsonDocuments[s]]
  ELSE [ok |-> FALSE, value |-> Undef]

(***************************************************************************)
(* The evaluate functions of the built-in catalog.                         *)
(***************************************************************************)
requiredTags == <<"Environment", "Owner", "Project">>

Evaluate_required_tags(resource) ==
  LET tags == Prop(resource, "tags")
      missing(tag) == ~Truthy(Field(tags, tag))
      missingTags == filter(requiredTags, missing)
  IN IF ~Truthy(tags) THEN Fire("Resource is missing required tags")
     ELSE IF Len(missingTags) > 0
          THEN Fire("Resource is missing tags: " \o join(missingTags, ", "))
          ELSE NoViolation

Evaluate_no_public_access(resource) ==
  IF IsTrue(Prop(resource, "public")) \/ IsTrue(Prop(resource, "publicly_accessible"))
  THEN Fire("Resource is configured for public access")
  ELSE NoViolation

hasEncryption(resource) ==
  \/ IsTrue(Prop(resource, "encrypted"))
  \/ IsTrue(Prop(resource, "encryption"))
  \/ IsTrue(Prop(resource, "encryption_enabled"))
  \/ ~IsUndef(Prop(resource, "server_side_encryption_configuration"))
  \/ ~IsUndef(Prop(resource, "kms_key_id"))

needsEncryption ==
  <<"aws_db_instance", "aws_rds_cluster", "aws_ebs_volume", "aws_s3_bucket",
    "aws_efs_file_system", "aws_dynamodb_table", "aws_sqs_queue", "aws_kinesis_stream">>

Evaluate_encryption_at_rest(resource) ==
  IF InList(needsEncryption, resource.type) /\ ~hasEncryption(resource)
  THEN Fire("Resource does not have encryption at rest enabled")
  ELSE NoViolation

sensitiveKeys == <<"password", "secret", "api_key", "token", "private_key">>

\* Object.entries order is the insertion order of the keys; the rule returns at
\* the first hit, and the message names that key.  The keys are taken in the
\* order of propertyOrder.
IsHardcodedSecret(key, value) ==
  /\ \E i \in 1..Len(sensitiveKeys) : includes(toLowerCase(key), sensitiveKeys[i])
  /\ IsStr(value)
  /\ ~startsWith(value.v, "var.")
  /\ ~startsWith(value.v, "${")
  /\ ~startsWith(value.v, "data.")
  /\ ~includes(value.v, "aws_secretsmanager")
  /\ ~includes(value.v, "vault")
  /\ Len(value.v) > 0

propertyOrder ==
  <<"ami", "bucket", "instance_type", "password", "db_password", "publicly_accessible",
    "public", "encrypted", "tags", "ingress", "protocol", "listener", "policy", "size">>

Evaluate_no_hardcoded_secrets(resource) ==
  LET hits == {k \in DOMAIN resource.properties :
                 IsHardcodedSecret(k, resource.properties[k])}
      ordered == {i \in 1..Len(propertyOrder) : propertyOrder[i] \in hits}
      first == IF ordered # {}
               THEN propertyOrder[CHOOSE i \in ordered : \A j \in ordered : i <= j]
               ELSE CHOOSE k \in hits : TRUE
  IN IF hits # {}
     THEN Fire("Potential hardcoded secret detected in property \"" \o first \o "\"")
     ELSE NoViolation

\* x?.includes(item): undefined for a nullish x, substring test on a string,
\* membership on an array, a TypeError on anything else.
OptIncludes(x, item) ==
  CASE IsNullish(x) -> "false"
    [] x.t = "string" -> IF includes(x.v, item) THEN "true" ELSE "false"
    [] x.t = "array" -> IF \E i \in 1..Len(x.v) : StrEq(x.v[i], item) THEN "true" ELSE "false"
    [] OTHER -> "throw"

\* One ingress rule of the loop: "skip" (no open CIDR, or port 80/443), "fire"
\* or "throw" (a nullish rule, or a cidr value without includes).
IngressRuleStep(rule) ==
  IF IsNullish(rule) THEN "throw"
  ELSE LET v4 == OptIncludes(Field(rule, "cidr_blocks"), "0.0.0.0/0")
           v6 == OptIncludes(Field(rule, "ipv6_cidr_blocks"), "::/0")
           fromPort == Field(rule, "from_port")
       IN IF v4 = "throw" THEN "throw"
          ELSE IF v4 = "false" /\ v6 = "throw" THEN "throw"
          ELSE IF v4 = "true" \/ v6 = "true"
               THEN IF fromPort.t = "number" /\ fromPort.v \in {80, 443} THEN "skip" ELSE "fire"
               ELSE "skip"

\* The first step of a loop that is not "skip" decides the loop.
FirstDecisive(list, step(_)) ==
  LET decisive == {i \in 1..Len(list) : step(list[i]) # "skip"}
  IN IF decisive = {} THEN "skip"
     ELSE step(list[CHOOSE i \in decisive : \A j \in decisive : i <= j])

Evaluate_security_group_unrestricted(resource) ==
  IF ~includes(resource.type, "security_group") /\ ~includes(resource.type, "SecurityGroup")
  THEN NoViolation
  ELSE LET ingress == Prop(resource, "ingress")
           rules == IF ingress.t = "array" THEN ingress.v
                    ELSE IF Truthy(ingress) THEN <<ingress>> ELSE <<>>
           decided == FirstDecisive(rules, IngressRuleStep)
       IN CASE decided = "fire" -> Fire("Security group allows unrestricted access (0.0.0.0/0)")
            [] decided = "throw" -> Thrown
            [] OTHER -> NoViolation

\* listener.protocol ; listenerProtocol?.toLowerCase() === 'http'
ListenerStep(listener) ==
  IF IsNullish(listener) THEN "throw"
  ELSE LET listenerProtocol == Field(listener, "protocol")
       IN IF IsNullish(listenerProtocol) THEN "skip"
          ELSE IF ~IsStr(listenerProtocol) THEN "throw"
          ELSE IF toLowerCase(listenerProtocol.v) = "http" THEN "fire" ELSE "skip"

Evaluate_encryption_in_transit(resource) ==
  IF includes(resource.type, "load_balancer") \/ includes(resource.type, "elb")
  THEN LET protocol == Prop(resource, "protocol")
           listeners == Prop(resource, "listener")
           decided == IF listeners.t = "array"
                      THEN FirstDecisive(listeners.v, ListenerStep) ELSE "skip"
       IN IF Truthy(protocol) /\ ~IsStr(protocol) THEN Thrown
          ELSE IF Truthy(protocol) /\ toLowerCase(protocol.v) = "http"
               THEN Fire("Load balancer uses unencrypted HTTP protocol")
          ELSE CASE decided = "fire" -> Fire("Listener configured with unencrypted HTTP")
                 [] decided = "throw" -> Thrown
                 [] OTHER -> NoViolation
  ELSE NoViolation

\* a === '*' || a.endsWith(':*') for one entry of the action list
ActionStep(a) ==
  IF StrEq(a, "*") THEN "fire"
  ELSE IF IsStr(a) THEN (IF endsWith(a.v, ":*") THEN "fire" ELSE "skip")
  ELSE "throw"

StatementStep(stmt) ==
  IF IsNullish(stmt) THEN "throw"
  ELSE LET actions == Field(stmt, "Action")
           actionList == IF actions.t = "array" THEN actions.v
                         ELSE IF Truthy(actions) THEN <<actions>> ELSE <<>>
       IN FirstDecisive(actionList, ActionStep)

Evaluate_iam_wildcard_actions(resource) ==
  IF ~includes(resource.type, "iam_") /\ ~includes(resource.type, "IAM")
  THEN NoViolation
  ELSE LET policy == Prop(resource, "policy")
           parsed == IF IsStr(policy) THEN JSONparse(policy.v) ELSE [ok |-> TRUE, value |-> Undef]
           policyObj == IF IsStr(policy) THEN parsed.value
                        ELSE IF policy.t \in {"object", "array", "null"} THEN policy
                        ELSE Undef
           statement == Field(policyObj, "Statement")
           statements == IF statement.t = "array" THEN statement.v ELSE <<statement>>
           decided == FirstDecisive(statements, StatementStep)
       IN IF IsStr(policy) /\ ~parsed.ok THEN NoViolation
          ELSE IF ~(Truthy(policyObj) /\ Truthy(statement)) THEN NoViolation
          ELSE CASE decided = "fire" -> Fire("IAM policy contains wildcard actions")
                 [] decided = "throw" -> Thrown
                 [] OTHER -> NoViolation

\* A pattern that takes the underscore as well, /^[a-z0-9_-]+$/: not the
\* rule's, which C23 tells apart from it.
snakeCasePattern(id) ==
  /\ Len(id) > 0
  /\ \A i \in 1..Len(id) :
       \/ InAlphabet(CharAt(id, i), LowerAlphabet)
       \/ InAlphabet(CharAt(id, i), Digits)
       \/ CharAt(id, i) \in {"-", "_"}

\* /^[a-z0-9-]+$/.test(id)
validNamePattern(id) ==
  /\ Len(id) > 0
  /\ \A i \in 1..Len(id) :
       \/ InAlphabet(CharAt(id, i), LowerAlphabet)
       \/ InAlphabet(CharAt(id, i), Digits)
       \/ CharAt(id, i) = "-"

Evaluate_naming_convention(resource) ==
  IF ~validNamePattern(resource.id)
  THEN Fire("Resource name \"" \o resource.id \o "\" does not follow naming convention")
  ELSE NoViolation

Evaluate_cost_large_instance(resource) ==
  LET instanceType == Prop(resource, "instance_type")
  IN IF ~Truthy(instanceType) THEN NoViolation
     ELSE IF IsStr(instanceType)
          THEN IF includes(instanceType.v, "xlarge") \/ includes(instanceType.v, "metal")
               THEN Fire("Instance type \"" \o instanceType.v \o "\" may incur high costs")
               ELSE NoViolation
     ELSE IF instanceType.t = "array"
          THEN IF OptIncludes(instanceType, "xlarge") = "true"
                  \/ OptIncludes(instanceType, "metal") = "true"
               THEN Fire("Instance type may incur high costs")
               ELSE NoViolation
     ELSE Thrown

Evaluate_cost_unattached_volumes(resource) ==
  IF ~includes(resource.type, "ebs_volume") /\ ~includes(resource.type, "EBS")
  THEN NoViolation
  ELSE LET attachedInstance == OrElse(Prop(resource, "instance"), Prop(resource, "attached_instance"))
       IN IF ~Truthy(attachedInstance)
          THEN Fire("EBS volume is not attached to any instance")
          ELSE NoViolation

Evaluate_cost_gp2_to_gp3(resource) ==
  IF ~includes(resource.type, "ebs_volume")
  THEN NoViolation
  ELSE LET volumeType == OrElse(Prop(resource, "type"), Prop(resource, "volume_type"))
       IN IF StrEq(volumeType, "gp2")
          THEN Fire("Consider migrating from gp2 to gp3 for cost savings")
          ELSE NoViolation

OversizedThreshold == 1000

Evaluate_cost_oversized_volume(resource) ==
  LET size == OrElse(Prop(resource, "size"), Prop(resource, "allocated_storage"))
  IN IF size.t = "number" /\ size.v > OversizedThreshold
     THEN Fire("Volume size may incur significant costs")
     ELSE NoViolation

Evaluate_cost_multi_az(resource) ==
  LET multiAz == OrElse(Prop(resource, "multi_az"), Prop(resource, "multi_availability_zone"))
  IN IF IsTrue(multiAz)
     THEN Fire("Multi-AZ deployment doubles infrastructure costs")
     ELSE NoViolation

Evaluate_cost_nat_gateway(resource) ==
  IF resource.type = "aws_nat_gateway"
  THEN Fire("NAT Gateways incur significant hourly and data transfer costs")
  ELSE NoViolation

Evaluate_cost_center_tag(resource) ==
  LET tags == Prop(resource, "tags")
  IN IF ~Truthy(tags) \/ ~Truthy(Field(tags, "CostCenter"))
     THEN Fire("Resource is missing CostCenter tag for billing allocation")
     ELSE NoViolation

nonProdEnvironments == <<"dev", "test", "staging", "sandbox">>

Evaluate_expiration_tag(resource) ==
  LET tags == Prop(resource, "tags")
      env == OrElse(Field(tags, "Environment"), Field(tags, "environment"))
  IN IF ~Truthy(env) THEN NoViolation
     ELSE IF ~IsStr(env) THEN Thrown
     ELSE IF InList(nonProdEnvironments, toLowerCase(env.v))
               /\ (~Truthy(tags) \/ ~Truthy(Field(tags, "ExpirationDate")))
          THEN Fire("Non-production resource missing ExpirationDate tag")
          ELSE NoViolation

backupTagResources ==
  <<"aws_db_instance", "aws_rds_cluster", "aws_ebs_volume", "aws_efs_file_system",
    "aws_dynamodb_table">>

Evaluate_backup_tag(resource) ==
  LET tags == Prop(resource, "tags")
  IN IF InList(backupTagResources, resource.type)
          /\ (~Truthy(tags) \/ ~Truthy(Field(tags, "BackupPolicy")))
     THEN Fire("Data resource missing BackupPolicy tag")
     ELSE NoViolation

needsLogging ==
  <<"aws_s3_bucket", "aws_cloudtrail", "aws_db_instance", "aws_rds_cluster",
    "aws_api_gateway", "aws_lb">>

hasLogging(resource) ==
  \/ ~IsUndef(Prop(resource, "logging"))
  \/ ~IsUndef(Prop(resource, "enabled_cloudwatch_logs_exports"))
  \/ ~IsUndef(Prop(resource, "access_logs"))
  \/ ~IsUndef(Prop(resource, "logging_config"))

Evaluate_compliance_logging(resource) ==
  IF InList(needsLogging, resource.type) /\ ~hasLogging(resource)
  THEN Fire("Resource does not have audit logging enabled")
  ELSE NoViolation

Evaluate_compliance_versioning(resource) ==
  LET versioning == Prop(resource, "versioning")
  IN IF resource.type = "aws_s3_bucket"
          /\ (~Truthy(versioning) \/ ~IsTrue(Field(versioning, "enabled")))
     THEN Fire("S3 bucket does not have versioning enabled")
     ELSE NoViolation

Evaluate_compliance_mfa_delete(resource) ==
  IF resource.type # "aws_s3_bucket" THEN NoViolation
  ELSE LET tags == Prop(resource, "tags")
           env == Field(tags, "Environment")
           versioning == Prop(resource, "versioning")
       IN IF IsNullish(env) THEN NoViolation
          ELSE IF ~IsStr(env) THEN Thrown
          ELSE IF toLowerCase(env.v) = "production"
                    /\ (~Truthy(versioning) \/ ~IsTrue(Field(versioning, "mfa_delete")))
               THEN Fire("Production S3 bucket should require MFA for deletion")
               ELSE NoViolation

\* tags?.DataClassification === marker || tags?.['<X>-Applicable'] === 'true'
Classified(resource, marker, applicableTag) ==
  LET tags == Prop(resource, "tags")
  IN StrEq(Field(tags, "DataClassification"), marker) \/ StrEq(Field(tags, applicableTag), "true")

euRegions == <<"eu-west-1", "eu-west-2", "eu-west-3", "eu-central-1", "eu-north-1">>

Evaluate_gdpr_data_residency(resource) ==
  LET region == Prop(resource, "region")
  IN IF Classified(resource, "GDPR", "GDPR-Applicable")
          /\ Truthy(region)
          /\ ~(IsStr(region) /\ InList(euRegions, region.v))
     THEN Fire("GDPR-applicable data must be stored in EU regions")
     ELSE NoViolation

Evaluate_gdpr_encryption_required(resource) ==
  IF Classified(resource, "GDPR", "GDPR-Applicable") /\ ~hasEncryption(resource)
  THEN Fire("GDPR-applicable resources must have encryption enabled")
  ELSE NoViolation

Evaluate_gdpr_data_retention(resource) ==
  LET hasRetentionPolicy ==
        \/ ~IsUndef(Prop(resource, "lifecycle_rule"))
        \/ ~IsUndef(Prop(resource, "lifecycle_policy"))
        \/ ~IsUndef(Prop(resource, "backup_retention_period"))
        \/ ~IsUndef(Field(Prop(resource, "tags"), "RetentionDays"))
  IN IF /\ Classified(resource, "GDPR", "GDPR-Applicable")
        /\ \/ includes(resource.type, "s3_bucket")
           \/ includes(resource.type, "ebs_volume")
           \/ includes(resource.type, "db_instance")
        /\ ~hasRetentionPolicy
     THEN Fire("GDPR requires defined data retention policies")
     ELSE NoViolation

Evaluate_hipaa_encryption_required(resource) ==
  IF Classified(resource, "PHI", "HIPAA-Applicable") /\ ~hasEncryption(resource)
  THEN Fire("HIPAA requires encryption of PHI at rest")
  ELSE NoViolation

Evaluate_hipaa_audit_logging(resource) ==
  IF Classified(resource, "PHI", "HIPAA-Applicable") /\ ~hasLogging(resource)
  THEN Fire("HIPAA requires comprehensive audit logging for PHI access")
  ELSE NoViolation

hipaaDataResources ==
  <<"aws_db_instance", "aws_rds_cluster", "aws_ebs_volume", "aws_efs_file_system">>

Evaluate_hipaa_backup_required(resource) ==
  LET hasBackup ==
        \/ ~IsUndef(Prop(resource, "backup_retention_period"))
        \/ ~IsUndef(Prop(resource, "backup_window"))
        \/ ~IsUndef(Prop(resource, "backup_policy"))
  IN IF /\ Classified(resource, "PHI", "HIPAA-Applicable")
        /\ InList(hipaaDataResources, resource.type)
        /\ ~hasBackup
     THEN Fire("HIPAA requires automated backups for PHI data")
     ELSE NoViolation

Evaluate_pci_network_segmentation(resource) ==
  LET hasSegmentation ==
        \/ ~IsUndef(Prop(resource, "vpc_id"))
        \/ ~IsUndef(Prop(resource, "subnet_id"))
        \/ ~IsUndef(Prop(resource, "subnet_ids"))
  IN IF Classified(resource, "PCI", "PCI-Applicable") /\ ~hasSegmentation
     THEN Fire("PCI-DSS requires network segmentation for cardholder data")
     ELSE NoViolation

\* x?.toLowerCase().includes('https') || x?.toLowerCase().includes('tls'):
\* "fire" when secure, "skip" when not, "throw" on a value without toLowerCase.
SecureProtocol(x) ==
  IF IsNullish(x) THEN "skip"
  ELSE IF ~IsStr(x) THEN "throw"
  ELSE IF includes(toLowerCase(x.v), "https") \/ includes(toLowerCase(x.v), "tls")
       THEN "fire" ELSE "skip"

SecureListenerStep(l) == IF IsNullish(l) THEN "throw" ELSE SecureProtocol(Field(l, "protocol"))

Evaluate_pci_encryption_transit(resource) ==
  IF /\ Classified(resource, "PCI", "PCI-Applicable")
     /\ (includes(resource.type, "load_balancer") \/ includes(resource.type, "api_gateway"))
  THEN LET byProtocol == SecureProtocol(Prop(resource, "protocol"))
           listeners == Prop(resource, "listener")
           byListeners == IF listeners.t = "array"
                          THEN FirstDecisive(listeners.v, SecureListenerStep) ELSE "skip"
       IN IF byProtocol = "throw" THEN Thrown
          ELSE IF byProtocol = "fire" THEN NoViolation
          ELSE IF byListeners = "throw" THEN Thrown
          ELSE IF byListeners = "fire" THEN NoViolation
          ELSE Fire("PCI-DSS requires TLS 1.2+ for cardholder data transmission")
  ELSE NoViolation

Evaluate_pci_access_control(resource) ==
  IF /\ Classified(resource, "PCI", "PCI-Applicable")
     /\ (IsTrue(Prop(resource, "public")) \/ IsTrue(Prop(resource, "publicly_accessible")))
  THEN Fire("PCI-DSS prohibits public access to cardholder data")
  ELSE NoViolation

Evaluate_pci_logging_monitoring(resource) ==
  IF Classified(resource, "PCI", "PCI-Applicable") /\ ~hasLogging(resource)
  THEN Fire("PCI-DSS requires comprehensive logging for cardholder data access")
  ELSE NoViolation

Evaluate_soc2_change_management(resource) ==
  LET tags == Prop(resource, "tags")
      hasChangeTracking ==
        \/ ~IsUndef(Field(tags, "ChangeTicket"))
        \/ ~IsUndef(Field(tags, "ChangeRequest"))
        \/ ~IsUndef(Field(tags, "ManagedBy"))
  IN IF ~hasChangeTracking
     THEN Fire("SOC2 requires change tracking tags for audit trail")
     ELSE NoViolation

soc2CriticalResources ==
  <<"aws_db_instance", "aws_rds_cluster", "aws_lb", "aws_api_gateway", "aws_lambda_function">>

Evaluate_soc2_monitoring_alerting(resource) ==
  LET hasMonitoring ==
        \/ ~IsUndef(Prop(resource, "monitoring_interval"))
        \/ ~IsUndef(Prop(resource, "enabled_cloudwatch_logs_exports"))
        \/ ~IsUndef(Prop(resource, "monitoring_role_arn"))
  IN IF InList(soc2CriticalResources, resource.type) /\ ~hasMonitoring
     THEN Fire("SOC2 requires monitoring for critical infrastructure")
     ELSE NoViolation

soc2DataResources ==
  <<"aws_db_instance", "aws_rds_cluster", "aws_dynamodb_table", "aws_efs_file_system">>

Evaluate_soc2_data_backup(resource) ==
  LET hasBackup ==
        \/ ~IsUndef(Prop(resource, "backup_retention_period"))
        \/ ~IsUndef(Prop(resource, "point_in_time_recovery"))
        \/ ~IsUndef(Prop(resource, "backup_window"))
  IN IF InList(soc2DataResources, resource.type) /\ ~hasBackup
     THEN Fire("SOC2 requires backup procedures for data availability")
     ELSE NoViolation

soc2AuditResources ==
  <<"aws_s3_bucket", "aws_db_instance", "aws_rds_cluster", "aws_api_gateway">>

Evaluate_soc2_access_logging(resource) ==
  LET hasAccessLogging ==
        \/ ~IsUndef(Prop(resource, "logging"))
        \/ ~IsUndef(Prop(resource, "enabled_cloudwatch_logs_exports"))
        \/ ~IsUndef(Prop(resource, "access_logs"))
  IN IF InList(soc2AuditResources, resource.type) /\ ~hasAccessLogging
     THEN Fire("SOC2 requires access logging for audit trail")
     ELSE NoViolation

(***************************************************************************)
(* Rules (PolicyRule).  frameworks models metadata?.frameworks: defined or *)
(* not, and its list.  evaluate names the rule's evaluate function.        *)
(***************************************************************************)
NoFrameworks == [defined |-> FALSE, list |-> <<>>]

Frameworks(list) == [defined |-> TRUE, list |-> list]

PolicyRule(id, name, category, severity, enabled, frameworks, evaluate) ==
  [id |-> id, name |-> name, category |-> category, severity |-> severity,
   enabled |-> enabled, frameworks |-> frameworks, evaluate |-> evaluate]

Builtin(id, name, category, severity, enabled, frameworks) ==
  PolicyRule(id, name, category, severity, enabled, frameworks, id)

\* The built-in catalog, in source order.
defaultPolicies ==
  <<    Builtin("required-tags", "Required Tags", "tagging", "warning", TRUE,
            Frameworks(<<"AWS Well-Architected", "FinOps", "Cloud Governance">>)),
    Builtin("no-public-access", "No Public Access", "security", "error", TRUE,
            Frameworks(<<"CIS AWS Foundations", "NIST 800-53", "SOC2", "ISO 27001">>)),
    Builtin("encryption-at-rest", "Encryption at Rest Required", "security", "error", TRUE,
            NoFrameworks),
    Builtin("no-hardcoded-secrets", "No Hardcoded Secrets", "security", "error", TRUE,
            NoFrameworks),
    Builtin("security-group-unrestricted", "No Unrestricted Security Groups", "security", "error", TRUE,
            NoFrameworks),
    Builtin("encryption-in-transit", "Encryption in Transit Required", "security", "error", TRUE,
            NoFrameworks),
    Builtin("iam-wildcard-actions", "No IAM Wildcard Actions", "security", "warning", TRUE,
            NoFrameworks),
    Builtin("naming-convention", "Naming Convention", "naming", "info", TRUE,
            NoFrameworks),
    Builtin("cost-large-instance", "Large Instance Warning", "cost", "warning", TRUE,
            NoFrameworks),
    Builtin("cost-unattached-volumes", "Unused EBS Volumes", "cost", "warning", TRUE,
            NoFrameworks),
    Builtin("cost-gp2-to-gp3", "GP2 to GP3 Migration", "cost", "info", TRUE,
            NoFrameworks),
    Builtin("cost-oversized-volume", "Oversized Volume Warning", "cost", "warning", TRUE,
            NoFrameworks),
    Builtin("cost-multi-az", "Multi-AZ Cost Warning", "cost", "info", TRUE,
            NoFrameworks),
    Builtin("cost-nat-gateway", "NAT Gateway Cost Warning", "cost", "info", TRUE,
            NoFrameworks),
    Builtin("cost-center-tag", "Cost Center Tag Required", "tagging", "warning", FALSE,
            NoFrameworks),
    Builtin("expiration-tag", "Expiration Date Tag", "tagging", "info", FALSE,
            NoFrameworks),
    Builtin("backup-tag", "Backup Policy Tag", "tagging", "warning", FALSE,
            NoFrameworks),
    Builtin("compliance-logging", "Audit Logging Required", "compliance", "error", FALSE,
            NoFrameworks),
    Builtin("compliance-versioning", "Versioning Required", "compliance", "warning", FALSE,
            NoFrameworks),
    Builtin("compliance-mfa-delete", "MFA Delete for S3", "compliance", "info", FALSE,
            NoFrameworks),
    Builtin("gdpr-data-residency", "GDPR Data Residency", "compliance", "error", FALSE,
            NoFrameworks),
    Builtin("gdpr-encryption-required", "GDPR Encryption Required", "compliance", "error", FALSE,
            NoFrameworks),
    Builtin("gdpr-data-retention", "GDPR Data Retention Policy", "compliance", "warning", FALSE,
            NoFrameworks),
    Builtin("hipaa-encryption-required", "HIPAA Encryption Required", "compliance", "error", FALSE,
            NoFrameworks),
    Builtin("hipaa-audit-logging", "HIPAA Audit Logging", "compliance", "error", FALSE,
            NoFrameworks),
    Builtin("hipaa-backup-required", "HIPAA Backup Required", "compliance", "error", FALSE,
            NoFrameworks),
    Builtin("pci-network-segmentation", "PCI-DSS Network Segmentation", "compliance", "error", FALSE,
            NoFrameworks),
    Builtin("pci-encryption-transit", "PCI-DSS Encryption in Transit", "compliance", "error", FALSE,
            NoFrameworks),
    Builtin("pci-access-control", "PCI-DSS Access Control", "compliance", "error", FALSE,
            NoFrameworks),
    Builtin("pci-logging-monitoring", "PCI-DSS Logging and Monitoring", "compliance", "error", FALSE,
            NoFrameworks),
    Builtin("soc2-change-management", "SOC2 Change Management", "compliance", "warning", FALSE,
            NoFrameworks),
    Builtin("soc2-monitoring-alerting", "SOC2 Monitoring and Alerting", "compliance", "error", FALSE,
            NoFrameworks),
    Builtin("soc2-data-backup", "SOC2 Data Backup", "compliance", "error", FALSE,
            NoFrameworks),
    Builtin("soc2-access-logging", "SOC2 Access Logging", "compliance", "error", FALSE,
            NoFrameworks)
  >>

\* The literals a built-in evaluate function writes into its violations.
BuiltinLiterals(evaluate) ==
  defaultPolicies[CHOOSE i \in 1..Len(defaultPolicies) : defaultPolicies[i].id = evaluate]

EvaluateBuiltin(evaluate, resource) ==
  CASE evaluate = "required-tags" -> Evaluate_required_tags(resource)
    [] evaluate = "no-public-access" -> Evaluate_no_public_access(resource)
    [] evaluate = "encryption-at-rest" -> Evaluate_encryption_at_rest(resource)
    [] evaluate = "no-hardcoded-secrets" -> Evaluate_no_hardcoded_secrets(resource)
    [] evaluate = "security-group-unrestricted" -> Evaluate_security_group_unrestricted(resource)
    [] evaluate = "encryption-in-transit" -> Evaluate_encryption_in_transit(resource)
    [] evaluate = "iam-wildcard-actions" -> Evaluate_iam_wildcard_actions(resource)
    [] evaluate = "naming-convention" -> Evaluate_naming_convention(resource)
    [] evaluate = "cost-large-instance" -> Evaluate_cost_large_instance(resource)
    [] evaluate = "cost-unattached-volumes" -> Evaluate_cost_unattached_volumes(resource)
    [] evaluate = "cost-gp2-to-gp3" -> Evaluate_cost_gp2_to_gp3(resource)
    [] evaluate = "cost-oversized-volume" -> Evaluate_cost_oversized_volume(resource)
    [] evaluate = "cost-multi-az" -> Evaluate_cost_multi_az(resource)
    [] evaluate = "cost-nat-gateway" -> Evaluate_cost_nat_gateway(resource)
    [] evaluate = "cost-center-tag" -> Evaluate_cost_center_tag(resource)
    [] evaluate = "expiration-tag" -> Evaluate_expiration_tag(resource)
    [] evaluate = "backup-tag" -> Evaluate_backup_tag(resource)
    [] evaluate = "compliance-logging" -> Evaluate_compliance_logging(resource)
    [] evaluate = "compliance-versioning" -> Evaluate_compliance_versioning(resource)
    [] evaluate = "compliance-mfa-delete" -> Evaluate_compliance_mfa_delete(resource)
    [] evaluate = "gdpr-data-residency" -> Evaluate_gdpr_data_residency(resource)
    [] evaluate = "gdpr-encryption-required" -> Evaluate_gdpr_encryption_required(resource)
    [] evaluate = "gdpr-data-retention" -> Evaluate_gdpr_data_retention(resource)
    [] evaluate = "hipaa-encryption-required" -> Evaluate_hipaa_encryption_required(resource)
    [] evaluate = "hipaa-audit-logging" -> Evaluate_hipaa_audit_logging(resource)
    [] evaluate = "hipaa-backup-required" -> Evaluate_hipaa_backup_required(resource)
    [] evaluate = "pci-network-segmentation" -> Evaluate_pci_network_segmentation(resource)
    [] evaluate = "pci-encryption-transit" -> Evaluate_pci_encryption_transit(resource)
    [] evaluate = "pci-access-control" -> Evaluate_pci_access_control(resource)
    [] evaluate = "pci-logging-monitoring" -> Evaluate_pci_logging_monitoring(resource)
    [] evaluate = "soc2-change-management" -> Evaluate_soc2_change_management(resource)
    [] evaluate = "soc2-monitoring-alerting" -> Evaluate_soc2_monitoring_alerting(resource)
    [] evaluate = "soc2-data-backup" -> Evaluate_soc2_data_backup(resource)
    [] evaluate = "soc2-access-logging" -> Evaluate_soc2_access_logging(resource)

(***************************************************************************)
(* Custom evaluate functions of the policy modules in the model's          *)
(* universe: the literals the function writes and when it fires.           *)
(***************************************************************************)
CustomEvaluators ==
  [e \in {"custom:null", "custom:s3-owner", "custom:any", "custom:throws"} |->
     CASE e = "custom:null" ->
            [ruleId |-> "required-tags", ruleName |-> "Custom Required Tags",
             severity |-> "error", category |-> "tagging", message |-> ""]
       [] e = "custom:s3-owner" ->
            [ruleId |-> "custom-s3-owner", ruleName |-> "S3 Owner",
             severity |-> "error", category |-> "security",
             message |-> "S3 bucket has no owner"]
       [] e = "custom:any" ->
            [ruleId |-> "custom-audit", ruleName |-> "Audit Everything",
             severity |-> "info", category |-> "compliance",
             message |-> "Resource must be audited"]
       [] e = "custom:throws" ->
            [ruleId |-> "custom-strict", ruleName |-> "Strict Names",
             severity |-> "warning", category |-> "naming", message |-> ""]]

EvaluateCustom(evaluate, resource) ==
  CASE evaluate = "custom:null" -> NoViolation
    [] evaluate = "custom:s3-owner" ->
         IF resource.type = "aws_s3_bucket" /\ ~Truthy(Field(Prop(resource, "tags"), "Owner"))
         THEN Fire(CustomEvaluators[evaluate].message) ELSE NoViolation
    [] evaluate = "custom:any" -> Fire(CustomEvaluators[evaluate].message)
    [] evaluate = "custom:throws" -> Thrown

IsCustomEvaluate(evaluate) == evaluate \in DOMAIN CustomEvaluators

PolicyViolation(literals, message, resource) ==
  [ruleId |-> literals.ruleId, ruleName |-> literals.ruleName,
   severity |-> literals.severity, category |-> literals.category,
   message |-> message,
   resource |-> [id |-> resource.id, type |-> resource.type, location |-> resource.location]]

\* The evaluate function named evaluate applied to resource:
\* [kind |-> "null"], [kind |-> "throw"] or
\* [kind |-> "violation", violation |-> the PolicyViolation].
ApplyEvaluate(evaluate, resource) ==
  LET raw == IF IsCustomEvaluate(evaluate)
             THEN EvaluateCustom(evaluate, resource)
             ELSE EvaluateBuiltin(evaluate, resource)
      literals == IF IsCustomEvaluate(evaluate)
                  THEN CustomEvaluators[evaluate]
                  ELSE [ruleId |-> BuiltinLiterals(evaluate).id,
                        ruleName |-> BuiltinLiterals(evaluate).name,
                        severity |-> BuiltinLiterals(evaluate).severity,
                        category |-> BuiltinLiterals(evaluate).category]
  IN IF raw.kind = "fire"
     THEN [kind |-> "violation", violation |-> PolicyViolation(literals, raw.message, resource)]
     ELSE raw

(***************************************************************************)
(* The parsed resources of the model.                                      *)
(***************************************************************************)
WebServer ==
  Resource("web_server", "aws_instance", "main.tf",
           [k \in {"ami", "instance_type", "tags"} |->
              CASE k = "ami" -> Str("ami-0c55b159cbfafe1f0")
                [] k = "instance_type" -> Str("t2.xlarge")
                [] k = "tags" -> Obj([t \in {"Name"} |-> Str("WebServer")])])

PublicBucket ==
  Resource("PublicBucket", "aws_s3_bucket", "main.tf",
           [k \in {"bucket"} |-> Str("my-public-bucket")])

Database ==
  Resource("database", "aws_db_instance", "modules/db/rds.test.tf",
           [k \in {"publicly_accessible", "tags"} |->
              CASE k = "publicly_accessible" -> Bool(TRUE)
                [] k = "tags" -> Obj([t \in {"Environment", "Owner", "Project"} |->
                                        CASE t = "Environment" -> Str("production")
                                          [] t = "Owner" -> Str("platform-team")
                                          [] t = "Project" -> Str("main-app")])])

ResourcePool == {WebServer, PublicBucket, Database}

\* A function given by a rule, as the table of its values: comparing a
\* function makes TLC enumerate it, and the enumeration is kept.
Tabulated(table) == IF table = table THEN table ELSE table

\* evaluate is a pure function of the resource: its results over the
\* resources of the model, computed once.
EvaluateNames ==
  {defaultPolicies[i].evaluate : i \in 1..Len(defaultPolicies)} \cup DOMAIN CustomEvaluators

EvaluateResults ==
  Tabulated([e \in EvaluateNames |-> [r \in ResourcePool |-> ApplyEvaluate(e, r)]])

\* policy.evaluate(resource)
Evaluate(policy, resource) == EvaluateResults[policy.evaluate][resource]

(***************************************************************************)
(* minimatch(path, pattern, options) for patterns built from literals, ?,  *)
(* * and **: segments are split at "/", * and ? do not cross a "/" and do  *)
(* not match a leading ".", ** stands for any number of whole segments,    *)
(* and with matchBase a pattern without "/" is matched against the base    *)
(* name.                                                                   *)
(***************************************************************************)
RECURSIVE SplitPath(_)
SplitPath(s) ==
  LET slashes == {i \in 1..Len(s) : CharAt(s, i) = "/"}
  IN IF slashes = {} THEN (IF s = "" THEN <<>> ELSE <<s>>)
     ELSE LET i == CHOOSE k \in slashes : \A j \in slashes : k <= j
          IN (IF i = 1 THEN <<>> ELSE <<SubSeq(s, 1, i - 1)>>)
               \o SplitPath(SubSeq(s, i + 1, Len(s)))

RECURSIVE GlobChars(_, _)
GlobChars(pat, str) ==
  IF pat = "" THEN str = ""
  ELSE LET c == CharAt(pat, 1)
           rest == SubSeq(pat, 2, Len(pat))
       IN CASE c = "*" -> \E k \in 0..Len(str) : GlobChars(rest, SubSeq(str, k + 1, Len(str)))
            [] c = "?" -> Len(str) > 0 /\ GlobChars(rest, SubSeq(str, 2, Len(str)))
            [] OTHER -> Len(str) > 0 /\ CharAt(str, 1) = c
                          /\ GlobChars(rest, SubSeq(str, 2, Len(str)))

GlobSegment(pat, seg) ==
  /\ ~(startsWith(seg, ".") /\ ~startsWith(pat, "."))
  /\ GlobChars(pat, seg)

RECURSIVE GlobPath(_, _)
GlobPath(pats, segs) ==
  IF Len(pats) = 0 THEN Len(segs) = 0
  ELSE IF Head(pats) = "**"
       THEN \E k \in 0..Len(segs) :
              /\ \A j \in 1..k : ~startsWith(segs[j], ".")
              /\ GlobPath(Tail(pats), SubSeq(segs, k + 1, Len(segs)))
       ELSE /\ Len(segs) > 0
            /\ GlobSegment(Head(pats), Head(segs))
            /\ GlobPath(Tail(pats), Tail(segs))

minimatch(path, pattern, matchBase) ==
  LET pats == SplitPath(pattern)
      segs == SplitPath(path)
  IN IF pattern = "" THEN path = ""
     ELSE IF matchBase /\ Len(pats) = 1 /\ Len(segs) > 0
          THEN GlobPath(pats, <<segs[Len(segs)]>>)
          ELSE GlobPath(pats, segs)

(***************************************************************************)
(* mergePolicies (custom-loader.ts).                                       *)
(***************************************************************************)
\* Array.prototype.findIndex by id: the first index, or -1
findIndex(list, id) ==
  LET found == {i \in 1..Len(list) : list[i].id = id}
  IN IF found = {} THEN -1 ELSE CHOOSE i \in found : \A j \in found : i <= j

\* what the loop does with one custom policy
MergeStep(merged, defaultIds, customPolicy) ==
  IF customPolicy.id \in defaultIds
  THEN LET index == findIndex(merged, customPolicy.id)
       IN IF index = -1 THEN merged ELSE [merged EXCEPT ![index] = customPolicy]
  ELSE Append(merged, customPolicy)

RECURSIVE MergeLoop(_, _, _)
MergeLoop(merged, defaultIds, customPolicies) ==
  IF Len(customPolicies) = 0 THEN merged
  ELSE MergeLoop(MergeStep(merged, defaultIds, Head(customPolicies)),
                 defaultIds, Tail(customPolicies))

\* A merge that works on the array it was given instead of a copy of it:
\* not the loader's, which C5 tells apart from it.
mergeInPlace(defaults, customPolicies) ==
  LET merged == MergeLoop(defaults, {defaults[i].id : i \in 1..Len(defaults)},
                          customPolicies)
  IN [merged |-> merged, defaultPolicies |-> merged, customPolicies |-> customPolicies]

\* The call with its effect on the heap: the returned array and the two
\* argument arrays as they are after the call (merged is a copy, so both
\* arguments are left as passed).
mergePoliciesCall(defaults, customPolicies) ==
  [merged |-> MergeLoop(defaults, {defaults[i].id : i \in 1..Len(defaults)}, customPolicies),
   defaultPolicies |-> defaults,
   customPolicies |-> customPolicies]

mergePolicies(defaults, customPolicies) == mergePoliciesCall(defaults, customPolicies).merged

(***************************************************************************)
(* ValidationConfig.  An optional list is present or not; policies? and    *)
(* exclude? are optional objects holding optional lists.                   *)
(***************************************************************************)
Absent == [present |-> FALSE, list |-> <<>>]

Some(list) == [present |-> TRUE, list |-> list]

\* policies: {enabled?, disabled?}; a missing policies object is the same as
\* one with neither list (config.policies?.enabled is undefined in both).
ValidationConfig(enabled, disabled, exclude) ==
  [policies |-> [enabled |-> enabled, disabled |-> disabled], exclude |-> exclude]

NoExclude == [present |-> FALSE, files |-> Absent, resources |-> Absent]

Exclude(files, resources) == [present |-> TRUE, files |-> files, resources |-> resources]

(***************************************************************************)
(* PolicyEngine (engine.ts).                                               *)
(***************************************************************************)
\* A framework predicate that compares the rule's entries as written, without
\* upper-casing them: not the engine's, which C2 tells apart from it.
MatchesFrameworkAsWritten(p, frameworkFilter) ==
  /\ p.frameworks.defined
  /\ \E i \in 1..Len(p.frameworks.list) :
       \E j \in 1..Len(frameworkFilter) :
         includes(p.frameworks.list[i], frameworkFilter[j])

\* the predicate of policies.filter in the framework stage
MatchesFramework(p, frameworkFilter) ==
  IF ~p.frameworks.defined \/ Len(p.frameworks.list) = 0
  THEN FALSE
  ELSE \E i \in 1..Len(p.frameworks.list) :
         \E j \in 1..Len(frameworkFilter) :
           includes(toUpperCase(p.frameworks.list[i]), frameworkFilter[j])

FrameworkStage(policies, frameworkFilter) ==
  IF frameworkFilter.present /\ Len(frameworkFilter.list) > 0
  THEN LET keep(p) == MatchesFramework(p, frameworkFilter.list) IN filter(policies, keep)
  ELSE policies

EnabledStage(policies, config) ==
  IF config.policies.enabled.present
  THEN LET keep(p) == InList(config.policies.enabled.list, p.id) IN filter(policies, keep)
  ELSE policies

\* A deny-list that yields to the allow-list: not the engine's, which C1
\* tells apart from it.
DisabledUnlessEnabled(policies, config) ==
  IF config.policies.disabled.present
  THEN LET keep(p) == \/ ~InList(config.policies.disabled.list, p.id)
                      \/ /\ config.policies.enabled.present
                         /\ InList(config.policies.enabled.list, p.id)
       IN filter(policies, keep)
  ELSE policies

DisabledStage(policies, config) ==
  IF config.policies.disabled.present
  THEN LET keep(p) == ~InList(config.policies.disabled.list, p.id) IN filter(policies, keep)
  ELSE policies

MergedCatalog(customPoliciesLoaded) ==
  IF Len(customPoliciesLoaded) > 0
  THEN mergePolicies(defaultPolicies, customPoliciesLoaded)
  ELSE defaultPolicies

\* private loadPolicies(config), reading this.customPoliciesLoaded and
\* this.frameworkFilter
loadPolicies(config, customPoliciesLoaded, frameworkFilter) ==
  DisabledStage(
    EnabledStage(FrameworkStage(MergedCatalog(customPoliciesLoaded), frameworkFilter), config),
    config)

\* An exclusion that matches resource patterns against the type only: not
\* the engine's, which C3 tells apart from it.
shouldExcludeByFileOrType(excludePatterns, resource) ==
  IF ~excludePatterns.present THEN FALSE
  ELSE \/ /\ excludePatterns.files.present
          /\ \E i \in 1..Len(excludePatterns.files.list) :
               minimatch(resource.location.file, excludePatterns.files.list[i], TRUE)
       \/ /\ excludePatterns.resources.present
          /\ \E i \in 1..Len(excludePatterns.resources.list) :
               minimatch(resource.type, excludePatterns.resources.list[i], FALSE)

\* shouldExcludeResource(resource), with excludePatterns = this.config.exclude
shouldExcludeResource(excludePatterns, resource) ==
  IF ~excludePatterns.present THEN FALSE
  ELSE \/ /\ excludePatterns.files.present
          /\ Len(excludePatterns.files.list) > 0
          /\ \E i \in 1..Len(excludePatterns.files.list) :
               minimatch(resource.location.file, excludePatterns.files.list[i], TRUE)
       \/ /\ excludePatterns.resources.present
          /\ Len(excludePatterns.resources.list) > 0
          /\ \E i \in 1..Len(excludePatterns.resources.list) :
               \/ minimatch(resource.type, excludePatterns.resources.list[i], FALSE)
               \/ minimatch(resource.id, excludePatterns.resources.list[i], FALSE)

ConfigPool ==
  {ValidationConfig(Absent, Absent, NoExclude),
   ValidationConfig(Some(<<"required-tags", "cost-center-tag", "naming-convention",
                           "custom-s3-owner", "custom-audit">>),
                    Some(<<"naming-convention", "custom-audit">>), NoExclude),
   ValidationConfig(Absent, Some(<<"required-tags">>),
                    Exclude(Some(<<"*.test.tf">>), Some(<<"aws_s3_*">>))),
   ValidationConfig(Absent, Absent, Exclude(Some(<<>>), Some(<<"data.*", "web_*">>)))}

\* shouldExcludeResource is a pure function of the configuration and the
\* resource: its results over the exclude sections and the resources of the
\* model, computed once.
ExcludeSections == {c.exclude : c \in ConfigPool}

ExcludeResults ==
  Tabulated([e \in ExcludeSections |->
               [r \in ResourcePool |-> shouldExcludeResource(e, r)]])

\* if (this.shouldExcludeResource(resource)) continue;
ShouldExclude(config, resource) == ExcludeResults[config.exclude][resource]

\* if (!policy.enabled) continue;
RunsPolicy(policy) == policy.enabled

\* The evaluate calls of the nested loop, in order, were no call to throw:
\* [resource |-> index in the input, policy |-> index in this.policies].
RECURSIVE PlannedCalls(_, _, _, _)
PlannedCalls(policies, config, resources, i) ==
  IF i > Len(resources) THEN <<>>
  ELSE (IF ShouldExclude(config, resources[i]) THEN <<>>
        ELSE LET runs(j) == RunsPolicy(policies[j])
                 js == SelectSeq([j \in 1..Len(policies) |-> j], runs)
             IN [k \in 1..Len(js) |-> [resource |-> i, policy |-> js[k]]])
       \o PlannedCalls(policies, config, resources, i + 1)

\* The violations.push(violation) part of the loop: what the planned calls
\* returned decides where the loop stops (at the first call that threw) and
\* which calls pushed a violation.
CollectViolations(policies, resources, planned, outcome) ==
  LET throwing == {k \in 1..Len(planned) : outcome[k].kind = "throw"}
      last == IF throwing # {} THEN CHOOSE k \in throwing : \A m \in throwing : k <= m
              ELSE Len(planned)
      fired(k) == outcome[k].kind = "violation"
      firedCalls == IF throwing # {} THEN <<>>
                    ELSE SelectSeq([k \in 1..Len(planned) |-> k], fired)
  IN [threw |-> throwing # {},
      violations |-> [n \in DOMAIN firedCalls |-> outcome[firedCalls[n]].violation],
      sources |-> [n \in DOMAIN firedCalls |-> planned[firedCalls[n]]],
      evaluated |-> SubSeq(planned, 1, last),
      resources |-> resources,
      policies |-> policies]

\* const violation = policy.evaluate(resource), for the planned calls
EvaluatePlanned(policies, resources, planned) ==
  CollectViolations(policies, resources, planned,
                    [k \in 1..Len(planned) |->
                       Evaluate(policies[planned[k].policy],
                                resources[planned[k].resource])])

\* The loops nested the other way round, rules outside and resources inside:
\* not the engine's order, which C4 tells apart from it.
RuleMajor(planned) ==
  LET before(a, b) == \/ a.policy < b.policy
                      \/ a.policy = b.policy /\ a.resource < b.resource
      rank(k) == Cardinality({m \in 1..Len(planned) : before(planned[m], planned[k])})
  IN [n \in 1..Len(planned) |->
        planned[CHOOSE k \in 1..Len(planned) : rank(k) = n - 1]]

validateRuleMajor(policies, config, resources) ==
  EvaluatePlanned(policies, resources,
                  RuleMajor(PlannedCalls(policies, config, resources, 1)))

\* A validateResources that takes the resources off the caller's array as it
\* goes: not the engine's, which C10 tells apart from it.
validateConsuming(policies, config, resources) ==
  [EvaluatePlanned(policies, resources, PlannedCalls(policies, config, resources, 1))
     EXCEPT !.resources = <<>>]

\* validateResources with its effects: the returned list (none when an
\* evaluate call threw), the evaluate calls made, and the input array and the
\* engine's rule list as they are after the call.
validateResourcesCall(policies, config, resources) ==
  EvaluatePlanned(policies, resources, PlannedCalls(policies, config, resources, 1))

(***************************************************************************)
(* Custom policy loader (custom-loader.ts).                                *)
(***************************************************************************)
Fn(name) == [t |-> "function", v |-> name]

StrList(list) == Arr([i \in 1..Len(list) |-> Str(list[i])])

\* An exported policy object with all fields of a PolicyRule.
Candidate(id, name, category, severity, enabled, evaluate, frameworks) ==
  Obj([k \in {"id", "name", "description", "category", "severity", "enabled",
              "evaluate", "metadata"} |->
         CASE k = "id" -> Str(id)
           [] k = "name" -> Str(name)
           [] k = "description" -> Str("")
           [] k = "category" -> Str(category)
           [] k = "severity" -> Str(severity)
           [] k = "enabled" -> Bool(enabled)
           [] k = "evaluate" -> Fn(evaluate)
           [] k = "metadata" -> Obj([m \in {"frameworks"} |-> StrList(frameworks)])])

\* The same rule as a JSON document can carry it: no evaluate.
Without(candidate, field) ==
  Obj([k \in (DOMAIN candidate.v) \ {field} |-> candidate.v[k]])

CustomRequiredTags ==
  Candidate("required-tags", "Custom Required Tags", "tagging", "error", TRUE,
            "custom:null", <<>>)

CustomS3Owner ==
  Candidate("custom-s3-owner", "S3 Owner", "security", "error", TRUE,
            "custom:s3-owner", <<"PCI-DSS">>)

CustomAudit ==
  Candidate("custom-audit", "Audit Everything", "compliance", "info", FALSE,
            "custom:any", <<"hipaa">>)

\* A rule whose evaluate throws for every resource it is given; it takes the
\* place of the built-in naming-convention.
CustomStrictNames ==
  Candidate("naming-convention", "Strict Names", "naming", "warning", TRUE,
            "custom:throws", <<>>)

\* The files a policy path can name: whether the file exists, and what the
\* module exports (module.default, module.policies); for a .json file,
\* default is the parsed document.
PolicyFile(exists, default, policies) ==
  [exists |-> exists, default |-> default, policies |-> policies]

PolicyPaths ==
  {"policies/override.js", "policies/pci.mjs", "policies/audit.ts",
   "policies/rules.json", "policies/README.md", "policies/strict.js"}

\* The path lists handed to loadCustomPoliciesFromFiles: none, one module, two
\* modules, the same module twice, a JSON document alone and after a module
\* that loads.
PathLists ==
  {<<>>,
   <<"policies/override.js">>,
   <<"policies/pci.mjs">>,
   <<"policies/audit.ts">>,
   <<"policies/override.js", "policies/pci.mjs">>,
   <<"policies/pci.mjs", "policies/pci.mjs">>,
   <<"policies/rules.json">>,
   <<"policies/pci.mjs", "policies/rules.json">>}

PolicyFiles ==
  [path \in PolicyPaths |->
     CASE path = "policies/override.js" ->
            PolicyFile(TRUE, Arr(<<CustomRequiredTags>>), Undef)
       [] path = "policies/pci.mjs" ->
            PolicyFile(TRUE, Obj([k \in {"policies"} |-> Arr(<<CustomS3Owner>>)]), Undef)
       [] path = "policies/audit.ts" ->
            PolicyFile(TRUE, Undef, Arr(<<CustomAudit>>))
       [] path = "policies/rules.json" ->
            PolicyFile(TRUE, Arr(<<Without(CustomAudit, "evaluate")>>), Undef)
       [] path = "policies/README.md" ->
            PolicyFile(TRUE, Undef, Undef)
       [] path = "policies/strict.js" ->
            PolicyFile(TRUE, Arr(<<CustomStrictNames>>), Undef)]

validSeverities == <<"error", "warning", "info">>

validCategories == <<"cost", "security", "compliance", "tagging", "naming">>

requiredFields == <<"id", "name", "description", "category", "severity", "evaluate">>

\* validatePolicyStructure: TRUE when it returns, FALSE when it throws
\* A validation that leaves the category unchecked: not the loader's, which
\* C14 tells apart from it.
validateWithoutCategory(policy) ==
  /\ policy.t \in {"object", "array"}
  /\ \A i \in 1..Len(requiredFields) :
       policy.t = "object" /\ requiredFields[i] \in DOMAIN policy.v
  /\ IsStr(policy.v["id"])
  /\ IsStr(policy.v["name"])
  /\ policy.v["evaluate"].t = "function"
  /\ IsStr(policy.v["severity"]) /\ InList(validSeverities, policy.v["severity"].v)
  /\ IsStr(policy.v["category"])

validatePolicyStructure(policy) ==
  /\ policy.t \in {"object", "array"}
  /\ \A i \in 1..Len(requiredFields) :
       policy.t = "object" /\ requiredFields[i] \in DOMAIN policy.v
  /\ IsStr(policy.v["id"])
  /\ IsStr(policy.v["name"])
  /\ policy.v["evaluate"].t = "function"
  /\ IsStr(policy.v["severity"]) /\ InList(validSeverities, policy.v["severity"].v)
  /\ IsStr(policy.v["category"]) /\ InList(validCategories, policy.v["category"].v)

\* The engine's reads of a validated policy object: p.id, p.enabled (by
\* truthiness), p.metadata?.frameworks, p.evaluate.
AsPolicyRule(policy) ==
  LET fw == Field(Get(policy.v, "metadata"), "frameworks")
  IN PolicyRule(policy.v["id"].v, policy.v["name"].v, policy.v["category"].v,
                policy.v["severity"].v, Truthy(Get(policy.v, "enabled")),
                IF fw.t = "array"
                THEN Frameworks([i \in 1..Len(fw.v) |-> fw.v[i].v])
                ELSE NoFrameworks,
                policy.v["evaluate"].v)

Failed == [ok |-> FALSE, policies |-> <<>>]

Loaded(list) ==
  IF \A i \in 1..Len(list) : validatePolicyStructure(list[i])
  THEN [ok |-> TRUE, policies |-> [i \in 1..Len(list) |-> AsPolicyRule(list[i])]]
  ELSE Failed

loadJSONPolicies(file) ==
  IF ~file.exists THEN Failed
  ELSE LET parsed == file.default
       IN IF parsed.t # "array" /\ ~Truthy(Field(parsed, "policies")) THEN Failed
          ELSE LET policies == IF parsed.t = "array" THEN parsed
                               ELSE Field(parsed, "policies")
               IN IF policies.t = "array" THEN Loaded(policies.v) ELSE Failed

loadJSPolicies(file) ==
  IF ~file.exists THEN Failed
  ELSE LET policies ==
             IF file.default.t = "array" THEN file.default
             ELSE IF Truthy(file.default) /\ file.default.t # "object"
                  THEN Str("TypeError")  \* 'policies' in a primitive throws
             ELSE IF file.default.t = "object" /\ "policies" \in DOMAIN file.default.v
                  THEN file.default.v["policies"]
             ELSE IF file.policies.t = "array" THEN file.policies
             ELSE Undef
       IN IF ~Truthy(policies) THEN Failed
          ELSE IF policies.t # "array" THEN Failed
          ELSE IF Len(policies.v) = 0 THEN Failed
          ELSE Loaded(policies.v)

\* new ConfigError(message, filePath): every failure of loadCustomPolicies is
\* one, thrown as it is or wrapped by the catch clause, and carries the path.
ConfigError(filePath) == [ok |-> FALSE, policies |-> <<>>, configPath |-> filePath]

\* loadCustomPolicies(filePath) where file is what readFile and import
\* deliver for that path.
loadCustomPoliciesOf(filePath, file) ==
  LET isTypeScript == endsWith(filePath, ".ts")
      isJavaScript == endsWith(filePath, ".js") \/ endsWith(filePath, ".mjs")
      isJSON == endsWith(filePath, ".json")
      result == IF isJSON THEN loadJSONPolicies(file)
                ELSE IF isJavaScript \/ isTypeScript THEN loadJSPolicies(file)
                ELSE Failed
  IN IF result.ok THEN result ELSE ConfigError(filePath)

\* loadCustomPolicies(filePath): [ok, policies]; ok = FALSE is the ConfigError
loadCustomPolicies(filePath) == loadCustomPoliciesOf(filePath, PolicyFiles[filePath])

\* the loop of loadCustomPoliciesFromFiles: the await that rejects ends it
RECURSIVE LoadAll(_, _)
LoadAll(policyPaths, allCustomPolicies) ==
  IF Len(policyPaths) = 0 THEN [ok |-> TRUE, policies |-> allCustomPolicies]
  ELSE LET loaded == loadCustomPolicies(Head(policyPaths))
       IN IF ~loaded.ok THEN loaded
          ELSE LoadAll(Tail(policyPaths), allCustomPolicies \o loaded.policies)

(***************************************************************************)
(* The inputs of the model: configurations, framework names, policy paths  *)
(* and parsed resources.                                                   *)
(***************************************************************************)
MaxResources == 2

RECURSIVE SeqsUpTo(_, _)
SeqsUpTo(S, n) ==
  IF n = 0 THEN {<<>>}
  ELSE LET shorter == SeqsUpTo(S, n - 1)
       IN shorter \cup {Append(q, x) : q \in {r \in shorter : Len(r) = n - 1}, x \in S}

\* The resources of one parsed file: each address appears once.
ResourceLists ==
  {resources \in SeqsUpTo(ResourcePool, MaxResources) :
     \A i, j \in 1..Len(resources) : i # j => resources[i] # resources[j]}

FrameworkLists == {<<"pci">>, <<"Soc2", "hipaa">>, <<>>}

(***************************************************************************)
(* The validate command (cli/commands/validate.ts): the summary it folds   *)
(* the per-file results into, and the pass decision.                       *)
(***************************************************************************)
\* const summary: ValidationSummary = {...}
NewSummary(totalFiles) ==
  [totalFiles |-> totalFiles,
   totalResources |-> 0,
   totalViolations |-> 0,
   violationsBySeverity |-> [error |-> 0, warning |-> 0, info |-> 0],
   violationsByCategory |-> [cost |-> 0, security |-> 0, compliance |-> 0,
                             tagging |-> 0, naming |-> 0],
   passed |-> TRUE,
   results |-> <<>>]

\* A count that leaves the categories alone: not the command's, which C9
\* tells apart from it.
RECURSIVE CountSeverities(_, _)
CountSeverities(counted, violations) ==
  IF Len(violations) = 0 THEN counted
  ELSE CountSeverities(
         [counted EXCEPT !.violationsBySeverity[Head(violations).severity] = @ + 1],
         Tail(violations))

\* for (const violation of fileResult.violations) { ...[violation.severity]++;
\* ...[violation.category]++ }
RECURSIVE CountViolations(_, _)
CountViolations(counted, violations) ==
  IF Len(violations) = 0 THEN counted
  ELSE CountViolations(
         [counted EXCEPT !.violationsBySeverity[Head(violations).severity] = @ + 1,
                         !.violationsByCategory[Head(violations).category] = @ + 1],
         Tail(violations))

\* One iteration of the aggregation loop, up to its fail-fast check.
AggregateResult(counted, fileResult) ==
  CountViolations([counted EXCEPT !.results = Append(@, fileResult),
                                  !.totalResources = @ + fileResult.resourceCount,
                                  !.totalViolations = @ + Len(fileResult.violations)],
                  fileResult.violations)

\* A pass decision that falls back to the error threshold for a failOn it
\* does not know: not the command's, which C8 tells apart from it.
shouldPassByDefault(violations, failOn) ==
  CASE failOn = "warning" -> violations.error = 0 /\ violations.warning = 0
    [] failOn = "info" ->
         violations.error = 0 /\ violations.warning = 0 /\ violations.info = 0
    [] OTHER -> violations.error = 0

shouldPass(violations, failOn) ==
  CASE failOn = "error" -> violations.error = 0
    [] failOn = "warning" -> violations.error = 0 /\ violations.warning = 0
    [] failOn = "info" ->
         violations.error = 0 /\ violations.warning = 0 /\ violations.info = 0
    [] OTHER -> FALSE

\* (options.severity as Severity) || 'error'
failOnSeverity(opts) == OrElse(opts.severity, Str("error")).v

\* What the task of one discovered file returns: the file is parsed and its
\* resources are validated by the engine of the run.
FileResult(parsed, rules, settings) ==
  LET call == validateResourcesCall(rules, settings, parsed.resources)
  IN [file |-> parsed.file,
      violations |-> call.violations,
      resourceCount |-> Len(parsed.resources),
      passed |-> Len(call.violations) = 0]

\* The lists mergePolicies is called with: a catalog (the built-in one, a
\* short one, an empty one) and up to MaxCustom custom rules.
MaxCustom == 2

CustomRules ==
  {AsPolicyRule(CustomRequiredTags), AsPolicyRule(CustomS3Owner), AsPolicyRule(CustomAudit),
   PolicyRule("naming-convention", "Strict Names", "naming", "warning", TRUE, NoFrameworks,
              "custom:throws")}

CustomLists == SeqsUpTo(CustomRules, MaxCustom)

CatalogLists == {defaultPolicies, SubSeq(defaultPolicies, 1, 2), <<>>}

\* The counts and thresholds shouldPass is called with.
MaxCount == 2

SeverityCounts == [error : 0..MaxCount, warning : 0..MaxCount, info : 0..MaxCount]

FailOnValues == {"error", "warning", "info", "critical"}

\* The files a run discovers, each with the resources its parse returns, and
\* the command-line options of the run.
MaxFiles == 2

ParsedFiles ==
  {[file |-> "main.tf", resources |-> <<WebServer, PublicBucket>>],
   [file |-> "modules/db/rds.test.tf", resources |-> <<Database>>],
   [file |-> "variables.tf", resources |-> <<>>]}

DiscoveredFiles ==
  {files \in SeqsUpTo(ParsedFiles, MaxFiles) :
     \A i, j \in 1..Len(files) : i # j => files[i] # files[j]}

\* A configuration file as JSON.parse delivers it: the sections of a
\* ValidationConfig and a frameworks list.
ConfigDocument(enabled, failOn, frameworks) ==
  [policies |-> [enabled |-> enabled, disabled |-> Absent],
   severity |-> [failOn |-> failOn],
   exclude |-> NoExclude,
   frameworks |-> frameworks]

\* options.config names no file
NoConfigFile == [named |-> FALSE]

ConfigFile(document) == [named |-> TRUE, document |-> document]

ConfigFiles ==
  {NoConfigFile,
   ConfigFile(ConfigDocument(Absent, Undef, Absent)),
   ConfigFile(ConfigDocument(Some(<<"required-tags", "cost-large-instance">>),
                             Str("warning"), Absent)),
   ConfigFile(ConfigDocument(Some(<<"naming-convention">>), Str("info"), Absent)),
   ConfigFile(ConfigDocument(Absent, Undef, Some(<<"PCI-DSS">>))),
   ConfigFile(ConfigDocument(Absent, Str("warning"), Some(<<"FinOps">>)))}

\* ValidationConfigSchema.parse(parsed): the object with the keys of the
\* schema (policies, severity, exclude); a key the schema does not name is
\* stripped.
loadConfig(document) ==
  [policies |-> document.policies,
   severity |-> document.severity,
   exclude |-> document.exclude]

\* const config = options.config ? await loadConfig(options.config) : {}
CommandConfig(opts) ==
  IF opts.config.named THEN loadConfig(opts.config.document)
  ELSE ValidationConfig(Absent, Absent, NoExclude)

CommandOptions ==
  [failFast : BOOLEAN,
   severity : {Undef, Str("warning"), Str("info"), Str("critical")},
   config : ConfigFiles,
   framework : {<<>>, <<"FinOps">>}]

(***************************************************************************)
(* State.                                                                  *)
(***************************************************************************)
VARIABLES
  config,                \* PolicyEngine.config
  policies,              \* PolicyEngine.policies, the resolved rule list
  customPoliciesLoaded,  \* PolicyEngine.customPoliciesLoaded
  frameworkFilter,       \* PolicyEngine.frameworkFilter
  lastCall,              \* the last call on the engine, its arguments and result
  mergeCall,             \* a call of mergePolicies: arguments, and result once returned
  passCall,              \* a call of shouldPass: arguments, and result once returned
  evalCall,              \* a call of a rule's evaluate: arguments, and result once returned
  loaderCall,            \* a call of loadCustomPolicies: argument, and result once returned
  fileResults,           \* validateCommand: results, what Promise.all resolved to
  options,               \* validateCommand: options
  summary,               \* validateCommand: summary
  tasks,                 \* validateCommand: the per-file promises of the fan-out
  cache,                 \* IacFileCache and the file it caches, with the calls in flight
  pc                     \* validateCommand: where the command is

engine == <<config, policies, customPoliciesLoaded, frameworkFilter>>

functions == <<mergeCall, passCall, evalCall, loaderCall, cache>>

command == <<fileResults, options, summary, tasks, pc>>

vars == <<config, policies, customPoliciesLoaded, frameworkFilter, lastCall,
          mergeCall, passCall, evalCall, loaderCall, fileResults, options, summary,
          tasks, pc, cache>>

NoCall == [returned |-> FALSE]

\* no cache is in use
NoCache ==
  [enabled |-> FALSE, cacheDir |-> {}, file |-> [exists |-> FALSE],
   setCall |-> [pc |-> "idle"], getCall |-> [pc |-> "idle"]]

\* no file has been discovered, no promise created
NoTasks == [files |-> <<>>, state |-> <<>>, value |-> <<>>, rules |-> <<>>, settled |-> <<>>]

\* evaluate and loadCustomPolicies are not being called on their own
NoPureCall ==
  /\ evalCall = NoCall
  /\ loaderCall = NoCall

NoCommand ==
  /\ fileResults = <<>>
  /\ options = [failFast |-> FALSE, severity |-> Undef, config |-> NoConfigFile,
                framework |-> <<>>]
  /\ summary = NewSummary(0)
  /\ tasks = NoTasks
  /\ pc = [stage |-> "idle"]

(***************************************************************************)
(* getAvailableFrameworks: the names are collected in a Set, in the order  *)
(* of their first appearance, and sorted by Array.prototype.sort without a *)
(* comparator, that is by UTF-16 code units.                               *)
(***************************************************************************)
\* The characters of the model's framework names, in code unit order.
CodeUnits == " -0123456789ABCDEFGHIJKLMNOPQRSTUVWXYZabcdefghijklmnopqrstuvwxyz"

RECURSIVE CodeUnitLess(_, _)
CodeUnitLess(a, b) ==
  IF Len(b) = 0 THEN FALSE
  ELSE IF Len(a) = 0 THEN TRUE
  ELSE IF CharAt(a, 1) = CharAt(b, 1)
       THEN CodeUnitLess(SubSeq(a, 2, Len(a)), SubSeq(b, 2, Len(b)))
       ELSE IndexIn(CharAt(a, 1), CodeUnits) < IndexIn(CharAt(b, 1), CodeUnits)

\* sorted with item put at its place
InsertSorted(sorted, item) ==
  LET before == SelectSeq(sorted, LAMBDA other : ~CodeUnitLess(item, other))
      after == SelectSeq(sorted, LAMBDA other : CodeUnitLess(item, other))
  IN before \o <<item>> \o after

RECURSIVE sort(_)
sort(list) ==
  IF Len(list) = 0 THEN <<>>
  ELSE InsertSorted(sort(SubSeq(list, 1, Len(list) - 1)), list[Len(list)])

\* frameworks.add(framework) for every framework of every policy, in order
RECURSIVE AddFrameworks(_, _)
AddFrameworks(frameworks, names) ==
  IF Len(names) = 0 THEN frameworks
  ELSE AddFrameworks(IF InList(frameworks, Head(names)) THEN frameworks
                     ELSE Append(frameworks, Head(names)),
                     Tail(names))

RECURSIVE CollectFrameworks(_, _)
CollectFrameworks(frameworks, allPolicies) ==
  IF Len(allPolicies) = 0 THEN frameworks
  ELSE CollectFrameworks(
         IF Head(allPolicies).frameworks.defined
         THEN AddFrameworks(frameworks, Head(allPolicies).frameworks.list)
         ELSE frameworks,
         Tail(allPolicies))

\* The names as the Set holds them, unsorted: not the engine's result, which
\* C12 tells apart from it.
frameworksAsCollected(loaded) ==
  CollectFrameworks(<<>>, IF Len(loaded) > 0 THEN mergePolicies(defaultPolicies, loaded)
                          ELSE defaultPolicies)

getAvailableFrameworks(loaded) ==
  sort(CollectFrameworks(<<>>, IF Len(loaded) > 0 THEN mergePolicies(defaultPolicies, loaded)
                               ELSE defaultPolicies))

\* constructor(config)
Constructed(settings) ==
  /\ config = settings
  /\ customPoliciesLoaded = <<>>
  /\ frameworkFilter = Absent
  /\ policies = loadPolicies(settings, <<>>, Absent)
  /\ lastCall = [op |-> "constructor"]

Init ==
  /\ \E settings \in ConfigPool : Constructed(settings)
  /\ mergeCall = NoCall
  /\ passCall = NoCall
  /\ NoPureCall
  /\ NoCommand
  /\ cache = NoCache

\* A setter that stores the filter and leaves the resolved list for later:
\* not the engine's, which C24 tells apart from it.
SetFrameworkFilterOnly(frameworks) ==
  /\ frameworkFilter' = Some([i \in 1..Len(frameworks) |-> toUpperCase(frameworks[i])])
  /\ lastCall' = [op |-> "setFrameworkFilter", frameworks |-> frameworks]
  /\ UNCHANGED <<config, policies, customPoliciesLoaded, functions, command>>

SetFrameworkFilter(frameworks) ==
  /\ frameworkFilter' = Some([i \in 1..Len(frameworks) |-> toUpperCase(frameworks[i])])
  /\ policies' = loadPolicies(config, customPoliciesLoaded, frameworkFilter')
  /\ lastCall' = [op |-> "setFrameworkFilter", frameworks |-> frameworks]
  /\ UNCHANGED <<config, customPoliciesLoaded, functions, command>>

\* The rules of the paths before the first one that fails to load.
RECURSIVE LoadedBeforeFailure(_, _)
LoadedBeforeFailure(policyPaths, allCustomPolicies) ==
  IF Len(policyPaths) = 0 \/ ~loadCustomPolicies(Head(policyPaths)).ok
  THEN allCustomPolicies
  ELSE LoadedBeforeFailure(Tail(policyPaths),
                           allCustomPolicies \o loadCustomPolicies(Head(policyPaths)).policies)

\* A load that activates what it has read when a later path fails: not the
\* engine's, which C13 tells apart from it.
LoadCustomPoliciesBestEffort(policyPaths) ==
  /\ customPoliciesLoaded' = LoadedBeforeFailure(policyPaths, <<>>)
  /\ policies' = loadPolicies(config, customPoliciesLoaded', frameworkFilter)
  /\ lastCall' = [op |-> "loadCustomPoliciesFromFiles", policyPaths |-> policyPaths,
                  rejected |-> ~LoadAll(policyPaths, <<>>).ok]
  /\ UNCHANGED <<config, frameworkFilter, functions, command>>

LoadCustomPoliciesFromFiles(policyPaths) ==
  LET loaded == LoadAll(policyPaths, <<>>)
  IN IF loaded.ok
     THEN /\ customPoliciesLoaded' = loaded.policies
          /\ policies' = loadPolicies(config, customPoliciesLoaded', frameworkFilter)
          /\ lastCall' = [op |-> "loadCustomPoliciesFromFiles", policyPaths |-> policyPaths,
                          rejected |-> FALSE]
          /\ UNCHANGED <<config, frameworkFilter, functions, command>>
     ELSE /\ lastCall' = [op |-> "loadCustomPoliciesFromFiles", policyPaths |-> policyPaths,
                          rejected |-> TRUE]
          /\ UNCHANGED <<engine, functions, command>>

ValidateResources(resources) ==
  LET call == validateResourcesCall(policies, config, resources)
  IN /\ policies' = call.policies
     /\ lastCall' = [op |-> "validateResources",
                     input |-> resources,
                     resources |-> call.resources,
                     threw |-> call.threw,
                     violations |-> call.violations,
                     sources |-> call.sources,
                     evaluated |-> call.evaluated,
                     repeated |-> /\ lastCall.op = "validateResources"
                                  /\ lastCall.input = resources]
     /\ UNCHANGED <<config, customPoliciesLoaded, frameworkFilter, functions, command>>

GetAvailableFrameworks ==
  /\ lastCall' = [op |-> "getAvailableFrameworks",
                  result |-> getAvailableFrameworks(customPoliciesLoaded)]
  /\ UNCHANGED <<engine, functions, command>>

Next ==
  \/ \E frameworks \in FrameworkLists : SetFrameworkFilter(frameworks)
  \/ \E policyPaths \in PathLists : LoadCustomPoliciesFromFiles(policyPaths)
  \/ \E resources \in ResourceLists : ValidateResources(resources)
  \/ GetAvailableFrameworks

Spec == Init /\ [][Next]_vars

(***************************************************************************)
(* mergePolicies, called on its own.                                       *)
(***************************************************************************)
DefaultEngine == Constructed(ValidationConfig(Absent, Absent, NoExclude))

InitMerge ==
  /\ DefaultEngine
  /\ \E defaults \in CatalogLists, customPolicies \in CustomLists :
       mergeCall = [returned |-> FALSE,
                    defaultPolicies |-> defaults,
                    customPolicies |-> customPolicies]
  /\ passCall = NoCall
  /\ NoPureCall
  /\ NoCommand
  /\ cache = NoCache

MergePolicies ==
  /\ ~mergeCall.returned
  /\ LET call == mergePoliciesCall(mergeCall.defaultPolicies, mergeCall.customPolicies)
     IN mergeCall' = [returned |-> TRUE,
                      defaultPolicies |-> mergeCall.defaultPolicies,
                      customPolicies |-> mergeCall.customPolicies,
                      merged |-> call.merged,
                      defaultPoliciesAfter |-> call.defaultPolicies,
                      customPoliciesAfter |-> call.customPolicies]
  /\ UNCHANGED <<engine, lastCall, passCall, evalCall, loaderCall, cache, command>>

NextMerge == MergePolicies

SpecMerge == InitMerge /\ [][NextMerge]_vars

(***************************************************************************)
(* shouldPass, called on its own.                                          *)
(***************************************************************************)
InitPass ==
  /\ DefaultEngine
  /\ mergeCall = NoCall
  /\ \E violations \in SeverityCounts, failOn \in FailOnValues :
       passCall = [returned |-> FALSE, violations |-> violations, failOn |-> failOn]
  /\ NoPureCall
  /\ NoCommand
  /\ cache = NoCache

ShouldPass ==
  /\ ~passCall.returned
  /\ passCall' = [returned |-> TRUE,
                  violations |-> passCall.violations,
                  failOn |-> passCall.failOn,
                  result |-> shouldPass(passCall.violations, passCall.failOn)]
  /\ UNCHANGED <<engine, lastCall, mergeCall, evalCall, loaderCall, cache, command>>

NextPass == ShouldPass

SpecPass == InitPass /\ [][NextPass]_vars

(***************************************************************************)
(* loadCustomPolicies, called on its own, on a path and what the file at   *)
(* that path holds: a module with one export, or a parsed JSON document.   *)
(***************************************************************************)
MaxCandidates == 2

\* obj with field set to value
With(obj, field, value) ==
  Obj([k \in (DOMAIN obj.v) \cup {field} |-> IF k = field THEN value ELSE obj.v[k]])

Candidates ==
  {CustomS3Owner,
   CustomAudit,
   Without(CustomAudit, "evaluate"),
   Without(CustomS3Owner, "description"),
   With(CustomS3Owner, "severity", Str("critical")),
   With(CustomS3Owner, "category", Str("performance")),
   With(CustomS3Owner, "id", Num(7)),
   With(CustomS3Owner, "evaluate", Str("custom:s3-owner")),
   Null}

CandidateLists == SeqsUpTo(Candidates, MaxCandidates)

LoaderFiles ==
  UNION {{PolicyFile(TRUE, Arr(list), Undef),
          PolicyFile(TRUE, Obj([k \in {"policies"} |-> Arr(list)]), Undef),
          PolicyFile(TRUE, Undef, Arr(list))} : list \in CandidateLists}

LoaderPaths == {"policies/pci.mjs", "policies/audit.ts", "policies/rules.json"}

InitLoader ==
  /\ DefaultEngine
  /\ mergeCall = NoCall
  /\ passCall = NoCall
  /\ evalCall = NoCall
  /\ \E filePath \in LoaderPaths, file \in LoaderFiles :
       \* JSON.parse delivers the document itself, never undefined
       /\ endsWith(filePath, ".json") => file.default # Undef
       /\ loaderCall = [returned |-> FALSE, filePath |-> filePath, file |-> file]
  /\ NoCommand
  /\ cache = NoCache

LoadCustomPolicies ==
  /\ ~loaderCall.returned
  /\ loaderCall' = [returned |-> TRUE,
                    filePath |-> loaderCall.filePath,
                    file |-> loaderCall.file,
                    result |-> loadCustomPoliciesOf(loaderCall.filePath, loaderCall.file)]
  /\ UNCHANGED <<engine, lastCall, mergeCall, passCall, evalCall, cache, command>>

NextLoader == LoadCustomPolicies

SpecLoader == InitLoader /\ [][NextLoader]_vars

(***************************************************************************)
(* A built-in rule's evaluate, called on its own, on resources whose       *)
(* properties hold values of the expected type and of other types.         *)
(***************************************************************************)
NumericInstance ==
  Resource("batch_worker", "aws_instance", "main.tf",
           [k \in {"instance_type"} |-> Num(5)])

NumericCidrGroup ==
  Resource("web_sg", "aws_security_group", "main.tf",
           [k \in {"ingress"} |->
              Arr(<<Obj([f \in {"cidr_blocks", "from_port"} |->
                           IF f = "cidr_blocks" THEN Num(0) ELSE Num(22)])>>)])

NumericProtocolBalancer ==
  Resource("front", "aws_elb", "main.tf", [k \in {"protocol"} |-> Num(80)])

OpenGroup ==
  Resource("open_sg", "aws_security_group", "main.tf",
           [k \in {"ingress"} |->
              Obj([f \in {"cidr_blocks"} |-> Arr(<<Str("0.0.0.0/0")>>)])])

EvaluatedResources ==
  ResourcePool \cup {NumericInstance, NumericCidrGroup, NumericProtocolBalancer, OpenGroup}

InitEvaluate ==
  /\ DefaultEngine
  /\ mergeCall = NoCall
  /\ passCall = NoCall
  /\ \E i \in 1..Len(defaultPolicies), resource \in EvaluatedResources :
       evalCall = [returned |-> FALSE, rule |-> defaultPolicies[i].id, resource |-> resource]
  /\ loaderCall = NoCall
  /\ NoCommand
  /\ cache = NoCache

\* evaluate: (resource) => PolicyViolation | null, of the rule evalCall.rule
EvaluateRule ==
  /\ ~evalCall.returned
  /\ evalCall' = [returned |-> TRUE,
                  rule |-> evalCall.rule,
                  resource |-> evalCall.resource,
                  result |-> ApplyEvaluate(evalCall.rule, evalCall.resource)]
  /\ UNCHANGED <<engine, lastCall, mergeCall, passCall, loaderCall, cache, command>>

NextEvaluate == EvaluateRule

SpecEvaluate == InitEvaluate /\ [][NextEvaluate]_vars

(***************************************************************************)
(* validateCommand from the point where every per-file task has returned:  *)
(* the aggregation loop, one file per step, then the pass decision and the *)
(* exit.                                                                   *)
(***************************************************************************)
InitCommand ==
  /\ options \in CommandOptions
  \* new PolicyEngine(config)
  /\ config = CommandConfig(options)
  /\ customPoliciesLoaded = <<>>
  \* if (options.framework && options.framework.length > 0) setFrameworkFilter(...)
  /\ frameworkFilter =
       IF Len(options.framework) > 0
       THEN Some([i \in 1..Len(options.framework) |-> toUpperCase(options.framework[i])])
       ELSE Absent
  /\ policies = loadPolicies(config, customPoliciesLoaded, frameworkFilter)
  /\ lastCall = [op |-> "constructor"]
  /\ mergeCall = NoCall
  /\ passCall = NoCall
  /\ NoPureCall
  /\ cache = NoCache
  /\ \E files \in DiscoveredFiles :
       /\ fileResults = [i \in 1..Len(files) |-> FileResult(files[i], policies, config)]
       /\ summary = NewSummary(Len(files))
  /\ tasks = NoTasks
  /\ pc = [stage |-> "aggregate", file |-> 1]

\* if (files.length === 0) { displayError(...); process.exit(1) }
NoFilesFound ==
  /\ pc.stage = "aggregate"
  /\ Len(fileResults) = 0
  /\ pc' = [stage |-> "exit", code |-> 1]
  /\ UNCHANGED <<engine, lastCall, functions, fileResults, options, summary, tasks>>

\* An aggregation loop without the fail-fast check: not the command's, which
\* C27 tells apart from it.
AggregateEveryFile ==
  /\ pc.stage = "aggregate"
  /\ pc.file <= Len(fileResults)
  /\ summary' = AggregateResult(summary, fileResults[pc.file])
  /\ pc' = IF pc.file = Len(fileResults) THEN [stage |-> "decide"]
           ELSE [stage |-> "aggregate", file |-> pc.file + 1]
  /\ UNCHANGED <<engine, lastCall, functions, fileResults, options, tasks>>

\* for (const fileResult of results) { ... if (options.failFast && ...) break }
AggregateFile ==
  /\ pc.stage = "aggregate"
  /\ pc.file <= Len(fileResults)
  /\ summary' = AggregateResult(summary, fileResults[pc.file])
  /\ pc' = IF \/ options.failFast /\ Len(fileResults[pc.file].violations) > 0
              \/ pc.file = Len(fileResults)
           THEN [stage |-> "decide"]
           ELSE [stage |-> "aggregate", file |-> pc.file + 1]
  /\ UNCHANGED <<engine, lastCall, functions, fileResults, options, tasks>>

\* summary.passed = shouldPass(...); displayResults(...);
\* process.exit(summary.passed ? 0 : 1)
Decide ==
  /\ pc.stage = "decide"
  /\ summary' = [summary EXCEPT
                   !.passed = shouldPass(summary.violationsBySeverity, failOnSeverity(options))]
  /\ pc' = [stage |-> "exit", code |-> IF summary'.passed THEN 0 ELSE 1]
  /\ UNCHANGED <<engine, lastCall, functions, fileResults, options, tasks>>

NextCommand == NoFilesFound \/ AggregateFile \/ Decide

SpecCommand == InitCommand /\ [][NextCommand]_vars

(***************************************************************************)
(* validateCommand as a whole: the setup of the engine, the discovery of   *)
(* the files, the per-file tasks that Promise.all waits for (each resumes  *)
(* when its parse resolves, in any order), the aggregation loop, the pass  *)
(* decision and the exit; a rejection anywhere lands in the catch block.   *)
(***************************************************************************)
\* The files findIacFiles can discover in a run, parsed.
RunFiles ==
  ParsedFiles \cup {[file |-> "compute.tf", resources |-> <<WebServer>>]}

DiscoveredRuns ==
  {files \in SeqsUpTo(RunFiles, MaxFiles) :
     \A i, j \in 1..Len(files) : i # j => files[i] # files[j]}

\* options.policies: no path, a module that adds a rule, a module whose rule
\* throws, a path that fails to load
RunPolicyPaths ==
  {<<>>, <<"policies/pci.mjs">>, <<"policies/strict.js">>, <<"policies/README.md">>}

RunOptions ==
  [failFast : BOOLEAN,
   severity : {Undef},
   config : {NoConfigFile,
             ConfigFile(ConfigDocument(Some(<<"required-tags", "cost-large-instance">>),
                                       Str("warning"), Absent))},
   framework : {<<>>, <<"FinOps">>},
   policies : RunPolicyPaths]

\* a promise that has not settled holds no value
NoValue == [settled |-> FALSE]

InitRun ==
  /\ options \in RunOptions
  \* const config = options.config ? await loadConfig(options.config) : {};
  \* const policyEngine = new PolicyEngine(config)
  /\ Constructed(CommandConfig(options))
  /\ mergeCall = NoCall
  /\ passCall = NoCall
  /\ NoPureCall
  /\ cache = NoCache
  /\ fileResults = <<>>
  /\ summary = NewSummary(0)
  /\ \E files \in DiscoveredRuns : tasks = [NoTasks EXCEPT !.files = files]
  /\ pc = [stage |-> "policies"]

\* if (options.policies && options.policies.length > 0)
\*   await policyEngine.loadCustomPoliciesFromFiles(options.policies);
\* a rejection is caught at the end of the command: process.exit(1)
SetupPolicies ==
  /\ pc.stage = "policies"
  /\ IF Len(options.policies) > 0
     THEN LET loaded == LoadAll(options.policies, <<>>)
          IN IF loaded.ok
             THEN /\ customPoliciesLoaded' = loaded.policies
                  /\ policies' = loadPolicies(config, customPoliciesLoaded', frameworkFilter)
                  /\ lastCall' = [op |-> "loadCustomPoliciesFromFiles",
                                  policyPaths |-> options.policies, rejected |-> FALSE]
                  /\ pc' = [stage |-> "framework"]
             ELSE /\ lastCall' = [op |-> "loadCustomPoliciesFromFiles",
                                  policyPaths |-> options.policies, rejected |-> TRUE]
                  /\ pc' = [stage |-> "exit", code |-> 1]
                  /\ UNCHANGED <<customPoliciesLoaded, policies>>
     ELSE /\ pc' = [stage |-> "framework"]
          /\ UNCHANGED <<customPoliciesLoaded, policies, lastCall>>
  /\ UNCHANGED <<config, frameworkFilter, functions, fileResults, options, summary, tasks>>

\* A setup that goes on to the files without handing the framework option to
\* the engine: not the command's, which C25 tells apart from it.
SetupFrameworkSkipped ==
  /\ pc.stage = "framework"
  /\ pc' = [stage |-> "find"]
  /\ UNCHANGED <<engine, lastCall, functions, fileResults, options, summary, tasks>>

\* if (options.framework && options.framework.length > 0)
\*   policyEngine.setFrameworkFilter(options.framework)
SetupFramework ==
  /\ pc.stage = "framework"
  /\ IF Len(options.framework) > 0
     THEN /\ frameworkFilter' =
               Some([i \in 1..Len(options.framework) |-> toUpperCase(options.framework[i])])
          /\ policies' = loadPolicies(config, customPoliciesLoaded, frameworkFilter')
          /\ lastCall' = [op |-> "setFrameworkFilter", frameworks |-> options.framework]
     ELSE UNCHANGED <<frameworkFilter, policies, lastCall>>
  /\ pc' = [stage |-> "find"]
  /\ UNCHANGED <<config, customPoliciesLoaded, functions, fileResults, options, summary,
                 tasks>>

\* const files = await findIacFiles(...); if (files.length === 0) exit(1);
\* const summary = {...}; const validationPromises = files.map(async ...):
\* every task runs up to its await parseIacFile(...)
FindIacFiles ==
  /\ pc.stage = "find"
  /\ IF Len(tasks.files) = 0
     THEN /\ pc' = [stage |-> "exit", code |-> 1]
          /\ UNCHANGED <<summary, tasks>>
     ELSE /\ summary' = NewSummary(Len(tasks.files))
          /\ tasks' = [tasks EXCEPT
                         !.state = [i \in 1..Len(tasks.files) |-> "pending"],
                         !.value = [i \in 1..Len(tasks.files) |-> NoValue],
                         !.rules = [i \in 1..Len(tasks.files) |-> <<>>]]
          /\ pc' = [stage |-> "tasks"]
  /\ UNCHANGED <<engine, lastCall, functions, fileResults, options>>

\* What the promise of a task settles to once validateResources has run.
Settle(parsed, call) ==
  IF call.threw THEN [state |-> "rejected", value |-> NoValue]
  ELSE [state |-> "fulfilled",
        value |-> [file |-> parsed.file,
                   violations |-> call.violations,
                   resourceCount |-> Len(parsed.resources),
                   passed |-> Len(call.violations) = 0]]

\* A task that keeps what the rules before the throwing one found and
\* fulfils its promise with it: not the command's, which C28 tells apart
\* from it.
TaskResumesIsolating(i) ==
  /\ pc.stage = "tasks"
  /\ i \in 1..Len(tasks.files)
  /\ tasks.state[i] = "pending"
  /\ LET call == validateResourcesCall(policies, config, tasks.files[i].resources)
         settled == Settle(tasks.files[i], [call EXCEPT !.threw = FALSE])
     IN tasks' = [tasks EXCEPT !.state[i] = settled.state,
                               !.value[i] = settled.value,
                               !.rules[i] = policies,
                               !.settled = Append(@, i)]
  /\ UNCHANGED <<engine, lastCall, functions, fileResults, options, summary, pc>>

\* The continuation of task i after its await parseIacFile(file):
\* const violations = policyEngine.validateResources(parseResult.resources);
\* return {file, format, violations, resourceCount, passed}
TaskResumes(i) ==
  /\ pc.stage = "tasks"
  /\ i \in 1..Len(tasks.files)
  /\ tasks.state[i] = "pending"
  /\ LET call == validateResourcesCall(policies, config, tasks.files[i].resources)
         settled == Settle(tasks.files[i], call)
     IN /\ tasks' = [tasks EXCEPT !.state[i] = settled.state,
                                  !.value[i] = settled.value,
                                  !.rules[i] = policies,
                                  !.settled = Append(@, i)]
        /\ policies' = call.policies
  /\ UNCHANGED <<config, customPoliciesLoaded, frameworkFilter, lastCall, functions,
                 fileResults, options, summary, pc>>

\* A Promise.all that hands over the values in the order the promises
\* settled: not JavaScript's, which C26 tells apart from it.
PromiseAllAsSettled ==
  /\ pc.stage = "tasks"
  /\ \A i \in 1..Len(tasks.files) : tasks.state[i] = "fulfilled"
  /\ fileResults' = [k \in 1..Len(tasks.files) |-> tasks.value[tasks.settled[k]]]
  /\ pc' = [stage |-> "aggregate", file |-> 1]
  /\ UNCHANGED <<engine, lastCall, functions, options, summary, tasks>>

\* const results = await Promise.all(validationPromises), every promise
\* fulfilled: the values in the order of the promises
PromiseAll ==
  /\ pc.stage = "tasks"
  /\ \A i \in 1..Len(tasks.files) : tasks.state[i] = "fulfilled"
  /\ fileResults' = [i \in 1..Len(tasks.files) |-> tasks.value[i]]
  /\ pc' = [stage |-> "aggregate", file |-> 1]
  /\ UNCHANGED <<engine, lastCall, functions, options, summary, tasks>>

\* await Promise.all(validationPromises) rejects with the first rejection;
\* catch (error) { displayError(...); process.exit(1) }
PromiseAllRejects ==
  /\ pc.stage = "tasks"
  /\ \E i \in 1..Len(tasks.files) : tasks.state[i] = "rejected"
  /\ pc' = [stage |-> "exit", code |-> 1]
  /\ UNCHANGED <<engine, lastCall, functions, fileResults, options, summary, tasks>>

NextRun ==
  \/ SetupPolicies
  \/ SetupFramework
  \/ FindIacFiles
  \/ \E i \in 1..MaxFiles : TaskResumes(i)
  \/ PromiseAll
  \/ PromiseAllRejects
  \/ AggregateFile
  \/ Decide

SpecRun == InitRun /\ [][NextRun]_vars

(***************************************************************************)
(* IacFileCache (utils/cache.ts): get and set, each a sequence of awaited  *)
(* file operations, next to a caller that parses the file and hands the    *)
(* result to set, and to whoever modifies the file in the meantime.        *)
(***************************************************************************)
\* the file at filePath: absent, or its content
NoFile == [exists |-> FALSE]

FileWith(content) == [exists |-> TRUE, content |-> content]

\* the contents the file at filePath can have
Contents == {"resource aws_instance web_server", "resource aws_db_instance main"}

\* the path get and set are called with
CachedPath == "main.tf"

\* The parser's result for a content: the resources differ with the content.
ParsedIacFile(filePath, content) ==
  [file |-> filePath,
   resources |-> IF content = "resource aws_instance web_server"
                 THEN <<WebServer>> ELSE <<Database>>,
   metadata |-> [contentHash |-> Undef]]

\* createHash('sha256').update(content).digest('hex').substring(0, 16): the
\* digests of the contents of the model, which differ
hashContent(content) ==
  IF content = "resource aws_instance web_server" THEN "5f2b9c01d4e7a683"
  ELSE "c81e04ab39f7d256"

\* `${pathHash}-${hash}.json`
getCacheKey(filePath, hash) == <<filePath, hash>>

\* readFile(cachePath): the file of that name in the cache directory
ReadCache(cacheDir, cacheKey) ==
  IF \E entry \in cacheDir : entry.name = cacheKey
  THEN FileWith((CHOOSE entry \in cacheDir : entry.name = cacheKey).data)
  ELSE NoFile

\* writeFile(cachePath, data): the file of that name is created or replaced
WriteCache(cacheDir, cacheKey, data) ==
  {entry \in cacheDir : entry.name # cacheKey} \cup {[name |-> cacheKey, data |-> data]}

InitCache ==
  /\ DefaultEngine
  /\ mergeCall = NoCall
  /\ passCall = NoCall
  /\ NoPureCall
  /\ NoCommand
  \* new IacFileCache(enabled)
  /\ \E enabled \in BOOLEAN, file \in {NoFile} \cup {FileWith(c) : c \in Contents} :
       cache = [enabled |-> enabled, cacheDir |-> {}, file |-> file,
                setCall |-> [pc |-> "idle"], getCall |-> [pc |-> "idle"]]

UnlessCache == UNCHANGED <<engine, lastCall, mergeCall, passCall, evalCall, loaderCall, command>>

\* the file is written, or removed, by someone else
ModifyFile ==
  /\ \E file \in {NoFile} \cup {FileWith(c) : c \in Contents} :
       /\ file # cache.file
       /\ cache' = [cache EXCEPT !.file = file]
  /\ UnlessCache

\* the caller parses the file as it is now, to hand the result to set
ParseFile ==
  /\ cache.setCall.pc = "idle"
  /\ cache.file.exists
  /\ cache' = [cache EXCEPT
                 !.setCall = [pc |-> "parsed",
                              parsed |-> ParsedIacFile(CachedPath, cache.file.content)]]
  /\ UnlessCache

\* set(filePath, parsed) up to its first await:
\* if (!this.enabled) return; const content = await readFile(filePath);
\* const hash = this.hashContent(content); a failing read ends in the catch
SetReadsFile ==
  /\ cache.setCall.pc = "parsed"
  /\ cache' = [cache EXCEPT
                 !.setCall =
                   IF ~cache.enabled \/ ~cache.file.exists THEN [pc |-> "idle"]
                   ELSE [pc |-> "write", parsed |-> cache.setCall.parsed,
                         hash |-> hashContent(cache.file.content)]]
  /\ UnlessCache

\* const cachedData = {...parsed, metadata: {...parsed.metadata, contentHash: hash}};
\* await mkdir(...); await writeFile(cachePath, JSON.stringify(cachedData))
SetWritesCache ==
  /\ cache.setCall.pc = "write"
  /\ LET cachedData == [cache.setCall.parsed EXCEPT !.metadata.contentHash = cache.setCall.hash]
         cacheKey == getCacheKey(CachedPath, cache.setCall.hash)
     IN cache' = [cache EXCEPT !.cacheDir = WriteCache(@, cacheKey, cachedData),
                               !.setCall = [pc |-> "idle"]]
  /\ UnlessCache

\* get(filePath) up to its second await: if (!this.enabled) return null;
\* const content = await readFile(filePath); const hash = ...; a failing read
\* ends in the catch: return null
GetReadsFile ==
  /\ cache.getCall.pc \in {"idle", "returned"}
  /\ cache' = [cache EXCEPT
                 !.getCall =
                   IF ~cache.enabled \/ ~cache.file.exists
                   THEN [pc |-> "returned", result |-> Null, read |-> cache.file]
                   ELSE [pc |-> "lookup", read |-> cache.file,
                         hash |-> hashContent(cache.file.content)]]
  /\ UnlessCache

\* const cachedContent = await readFile(cachePath); const cached = JSON.parse(...);
\* if (cached.metadata.contentHash === hash) return cached; return null
GetReadsCache ==
  /\ cache.getCall.pc = "lookup"
  /\ LET cachedContent == ReadCache(cache.cacheDir, getCacheKey(CachedPath, cache.getCall.hash))
         result == IF cachedContent.exists
                      /\ cachedContent.content.metadata.contentHash = cache.getCall.hash
                   THEN cachedContent.content ELSE Null
     IN cache' = [cache EXCEPT
                    !.getCall = [pc |-> "returned", result |-> result,
                                 read |-> cache.getCall.read]]
  /\ UnlessCache

NextCache ==
  \/ ModifyFile
  \/ ParseFile
  \/ SetReadsFile
  \/ SetWritesCache
  \/ GetReadsFile
  \/ GetReadsCache

SpecCache == InitCache /\ [][NextCache]_vars

(***************************************************************************)
(* Properties of the engine (specification Spec).                          *)
(***************************************************************************)
Range(list) == {list[i] : i \in 1..Len(list)}

Ids(list) == {list[i].id : i \in 1..Len(list)}

\* some pattern of an optional pattern list matches the text
SomePatternMatches(patterns, text, matchBase) ==
  /\ patterns.present
  /\ \E i \in 1..Len(patterns.list) : minimatch(text, patterns.list[i], matchBase)

\* the exclusion predicate on a resource, under the stored configuration
Excluded(resource) ==
  /\ config.exclude.present
  /\ \/ SomePatternMatches(config.exclude.files, resource.location.file, TRUE)
     \/ SomePatternMatches(config.exclude.resources, resource.type, FALSE)
     \/ SomePatternMatches(config.exclude.resources, resource.id, FALSE)

\* the last call was validateResources and it returned a list
Validated == lastCall.op = "validateResources" /\ ~lastCall.threw

\* C1: a rule id listed in policies.disabled is in no resolved rule list,
\* after construction and after every sequence of setFrameworkFilter and
\* loadCustomPoliciesFromFiles calls, also when policies.enabled lists it as
\* well; validateResources evaluates no such rule.
C1_DisabledWins ==
  config.policies.disabled.present =>
    /\ \A i \in 1..Len(policies) :
         ~InList(config.policies.disabled.list, policies[i].id)
    /\ lastCall.op = "validateResources" =>
         \A k \in 1..Len(lastCall.evaluated) :
           ~InList(config.policies.disabled.list,
                   policies[lastCall.evaluated[k].policy].id)

\* A validateResources call that evaluated rules, on an engine with custom
\* rules loaded and a framework filter set, whose configuration lists a rule
\* of the merged catalog in both policies.enabled and policies.disabled.
C1_Witness ==
  /\ config.policies.disabled.present
  /\ config.policies.enabled.present
  /\ \E x \in Ids(MergedCatalog(customPoliciesLoaded)) :
       /\ InList(config.policies.disabled.list, x)
       /\ InList(config.policies.enabled.list, x)
  /\ Len(customPoliciesLoaded) > 0
  /\ frameworkFilter.present
  /\ lastCall.op = "validateResources"
  /\ Len(lastCall.evaluated) > 0

\* the predicate of C2 on a rule, for the framework names F as passed
RetainedFor(rule, F) ==
  /\ rule.frameworks.defined
  /\ Len(rule.frameworks.list) > 0
  /\ \E i \in 1..Len(rule.frameworks.list) : \E j \in 1..Len(F) :
       includes(toUpperCase(rule.frameworks.list[i]), toUpperCase(F[j]))

\* C2: after setFrameworkFilter(F) with a non-empty F, a rule of the merged
\* catalog passes the framework stage iff it has a non-empty
\* metadata.frameworks with an entry that, upper-cased, contains an
\* upper-cased token of F; the resolved rule list is the enabled and
\* disabled stages applied to exactly those rules, so a rule without
\* framework metadata is not in it, whatever policies.enabled lists.
C2_FrameworkStage ==
  (lastCall.op = "setFrameworkFilter" /\ Len(lastCall.frameworks) > 0) =>
    LET merged == MergedCatalog(customPoliciesLoaded)
        retained(rule) == RetainedFor(rule, lastCall.frameworks)
    IN /\ FrameworkStage(merged, frameworkFilter) = SelectSeq(merged, retained)
       /\ policies = DisabledStage(EnabledStage(SelectSeq(merged, retained), config), config)
       /\ \A i \in 1..Len(policies) : retained(policies[i])

\* setFrameworkFilter(<<"Soc2", "hipaa">>) has retained a rule through an
\* entry written in another case ("hipaa", "SOC2") and dropped rules that
\* carry no metadata.frameworks.
C2_Witness ==
  /\ lastCall.op = "setFrameworkFilter"
  /\ lastCall.frameworks = <<"Soc2", "hipaa">>
  /\ \E i \in 1..Len(policies) : InList(policies[i].frameworks.list, "hipaa")
  /\ \E i \in 1..Len(policies) : InList(policies[i].frameworks.list, "SOC2")
  /\ \E rule \in Range(MergedCatalog(customPoliciesLoaded)) :
       ~rule.frameworks.defined /\ rule \notin Range(policies)

\* C3: validateResources calls no rule's evaluate on a resource on which the
\* exclusion predicate is true and returns no violation for it; without an
\* exclude section every resource is evaluated by every enabled rule of the
\* resolved list.
C3_ExcludedUntouched ==
  lastCall.op = "validateResources" =>
    /\ \A k \in 1..Len(lastCall.evaluated) :
         ~Excluded(lastCall.input[lastCall.evaluated[k].resource])
    /\ \A n \in 1..Len(lastCall.violations) :
         /\ ~Excluded(lastCall.input[lastCall.sources[n].resource])
         /\ \A i \in 1..Len(lastCall.input) :
              Excluded(lastCall.input[i]) =>
                lastCall.violations[n].resource.id # lastCall.input[i].id
    /\ (~config.exclude.present /\ ~lastCall.threw) =>
         \A i \in 1..Len(lastCall.input) : \A j \in 1..Len(policies) :
           policies[j].enabled =>
             [resource |-> i, policy |-> j] \in Range(lastCall.evaluated)

\* A call whose input holds an excluded resource on which an enabled rule of
\* the resolved list fires, next to a resource that got violations.
C3_Witness ==
  /\ Validated
  /\ Len(lastCall.violations) > 0
  /\ \E i \in 1..Len(lastCall.input) :
       /\ Excluded(lastCall.input[i])
       /\ \E j \in 1..Len(policies) :
            /\ policies[j].enabled
            /\ ApplyEvaluate(policies[j].evaluate, lastCall.input[i]).kind = "violation"

\* C4: the returned violations are in resource-major, rule-minor order: of
\* two violations the one for the resource earlier in the input comes first,
\* and for one resource the one of the rule earlier in the resolved list;
\* the resolved list keeps the order of the merged catalog.
C4_NestedOrder ==
  /\ LET resolved(rule) == rule \in Range(policies)
     IN policies = SelectSeq(MergedCatalog(customPoliciesLoaded), resolved)
  /\ Validated =>
       /\ Len(lastCall.sources) = Len(lastCall.violations)
       /\ \A n \in 1..Len(lastCall.violations) :
            /\ lastCall.violations[n].ruleId = policies[lastCall.sources[n].policy].id
            /\ lastCall.violations[n].resource.id =
                 lastCall.input[lastCall.sources[n].resource].id
       /\ \A n, m \in 1..Len(lastCall.sources) :
            n < m =>
              \/ lastCall.sources[n].resource < lastCall.sources[m].resource
              \/ /\ lastCall.sources[n].resource = lastCall.sources[m].resource
                 /\ lastCall.sources[n].policy < lastCall.sources[m].policy

\* A call on two different resources that returned at least two violations
\* for each, the second resource being one a sort by id would put first.
C4_Witness ==
  /\ Validated
  /\ lastCall.input = <<WebServer, PublicBucket>>
  /\ \A i \in 1..2 :
       Cardinality({n \in 1..Len(lastCall.sources) : lastCall.sources[n].resource = i}) >= 2

\* C7: with policies.enabled present, every rule of the resolved list (the
\* catalog rules whose id is in the list and not in policies.disabled) is
\* evaluated on every resource that is not excluded, its own enabled flag
\* being false included, and no rule outside the list is evaluated.
C7_AllowListRuns ==
  (Validated /\ config.policies.enabled.present) =>
    /\ \A k \in 1..Len(lastCall.evaluated) :
         InList(config.policies.enabled.list, policies[lastCall.evaluated[k].policy].id)
    /\ \A i \in 1..Len(lastCall.input) :
         ~Excluded(lastCall.input[i]) =>
           \A j \in 1..Len(policies) :
             [resource |-> i, policy |-> j] \in Range(lastCall.evaluated)

C5_OverrideOrAppend ==
  mergeCall.returned =>
    /\ mergeCall.defaultPoliciesAfter = mergeCall.defaultPolicies
    /\ mergeCall.customPoliciesAfter = mergeCall.customPolicies
    /\ Len(mergeCall.customPolicies) = 1 =>
         LET builtins == mergeCall.defaultPolicies
             custom == mergeCall.customPolicies[1]
         IN IF custom.id \in Ids(builtins)
            THEN /\ Len(mergeCall.merged) = Len(builtins)
                 /\ \A i \in 1..Len(builtins) :
                      mergeCall.merged[i] =
                        IF builtins[i].id = custom.id THEN custom ELSE builtins[i]
            ELSE mergeCall.merged = Append(builtins, custom)

\* mergePolicies has returned from a call with the built-in catalog and one
\* custom rule that replaces a rule in the middle of it.
C5_Witness ==
  /\ mergeCall.returned
  /\ mergeCall.defaultPolicies = defaultPolicies
  /\ Len(mergeCall.customPolicies) = 1
  /\ mergeCall.customPolicies[1].id = "naming-convention"
  /\ mergeCall.merged # defaultPolicies
  /\ Len(mergeCall.merged) = Len(defaultPolicies)

\* C6: the list mergePolicies returns for a catalog of distinct ids holds no
\* two rules with the same id, whatever the custom rules, two custom rules
\* with the same id included.
C6_UniqueIds ==
  (mergeCall.returned
     /\ \A i, j \in 1..Len(mergeCall.defaultPolicies) :
          mergeCall.defaultPolicies[i].id = mergeCall.defaultPolicies[j].id => i = j) =>
    \A i, j \in 1..Len(mergeCall.merged) :
      mergeCall.merged[i].id = mergeCall.merged[j].id => i = j

(***************************************************************************)
(* Properties of shouldPass (specification SpecPass).                      *)
(***************************************************************************)
\* C8: shouldPass passes for failOn = error iff there is no error, for
\* failOn = warning iff there is no error and no warning, for failOn = info
\* iff there is no violation of any severity, and for no other failOn.
C8_TruthTable ==
  passCall.returned =>
    (passCall.result <=>
       \/ passCall.failOn = "error" /\ passCall.violations.error = 0
       \/ /\ passCall.failOn = "warning"
          /\ passCall.violations.error = 0
          /\ passCall.violations.warning = 0
       \/ /\ passCall.failOn = "info"
          /\ passCall.violations.error = 0
          /\ passCall.violations.warning = 0
          /\ passCall.violations.info = 0)

\* shouldPass has returned false for an unknown failOn and no violation at all.
C8_Witness ==
  /\ passCall.returned
  /\ passCall.failOn \notin {"error", "warning", "info"}
  /\ passCall.violations = [error |-> 0, warning |-> 0, info |-> 0]
  /\ ~passCall.result

(***************************************************************************)
(* Properties of the validate command (specification SpecCommand).         *)
(***************************************************************************)
\* C9: whatever part of the per-file results the summary has aggregated,
\* with or without fail-fast, its counts by severity add up to
\* totalViolations, and so do its counts by category.
C9_TotalsAgree ==
  /\ summary.violationsBySeverity.error + summary.violationsBySeverity.warning
       + summary.violationsBySeverity.info = summary.totalViolations
  /\ summary.violationsByCategory.cost + summary.violationsByCategory.security
       + summary.violationsByCategory.compliance + summary.violationsByCategory.tagging
       + summary.violationsByCategory.naming = summary.totalViolations

\* A run that stopped aggregating at a file with violations of two
\* severities and two categories, under fail-fast, with a file left over.
C9_Witness ==
  /\ pc.stage = "exit"
  /\ options.failFast
  /\ Len(summary.results) < Len(fileResults)
  /\ summary.violationsBySeverity.warning > 0
  /\ summary.violationsBySeverity.info > 0
  /\ summary.violationsByCategory.tagging > 0
  /\ summary.violationsByCategory.naming > 0

(***************************************************************************)
(* Properties of the built-in evaluate functions (specification            *)
(* SpecEvaluate).                                                          *)
(***************************************************************************)
\* C11: a built-in rule's evaluate returns a violation or null, and never
\* throws, on every resource, whatever the type of the values its properties
\* hold.
C11_Total ==
  evalCall.returned => evalCall.result.kind \in {"null", "violation"}

(***************************************************************************)
(* Properties of getAvailableFrameworks (specification Spec).              *)
(***************************************************************************)
\* C12: whatever the framework filter and the enabled and disabled lists,
\* getAvailableFrameworks returns, in ascending order and without
\* duplicates, exactly the framework names of the built-in catalog merged
\* with the loaded custom rules.
C12_FrameworkUnion ==
  lastCall.op = "getAvailableFrameworks" =>
    /\ \A i, j \in 1..Len(lastCall.result) :
         i < j => CodeUnitLess(lastCall.result[i], lastCall.result[j])
    /\ Range(lastCall.result) =
         UNION {Range(rule.frameworks.list) :
                  rule \in {r \in Range(mergePolicies(defaultPolicies, customPoliciesLoaded)) :
                              r.frameworks.defined}}

\* The call has returned on an engine with a framework filter, an enabled
\* list and a loaded custom rule whose framework no built-in rule names.
C12_Witness ==
  /\ lastCall.op = "getAvailableFrameworks"
  /\ frameworkFilter.present /\ Len(frameworkFilter.list) > 0
  /\ config.policies.enabled.present
  /\ Len(customPoliciesLoaded) > 0
  /\ InList(lastCall.result, "PCI-DSS")
  /\ Len(lastCall.result) > Len(policies)

(***************************************************************************)
(* Properties of loadCustomPoliciesFromFiles (specification Spec).         *)
(***************************************************************************)
\* C13: a call of loadCustomPoliciesFromFiles that fails on one of its paths
\* leaves the loaded custom rules, the resolved rule list and every other
\* field of the engine as they were before the call.
C13_FailedLoadKeepsState ==
  [][(lastCall'.op = "loadCustomPoliciesFromFiles" /\ lastCall'.rejected)
       => engine' = engine]_vars

\* A call has failed on its second path after its first path had loaded, on
\* an engine that holds rules of an earlier call: the rule of the first path
\* is not among the resolved rules.
C13_Witness ==
  /\ lastCall.op = "loadCustomPoliciesFromFiles"
  /\ lastCall.rejected
  /\ Len(lastCall.policyPaths) = 2
  /\ loadCustomPolicies(lastCall.policyPaths[1]).ok
  /\ Len(customPoliciesLoaded) > 0
  /\ Ids(loadCustomPolicies(lastCall.policyPaths[1]).policies) \cap Ids(policies) = {}
  /\ Ids(customPoliciesLoaded) \cap Ids(policies) # {}

(***************************************************************************)
(* Properties of loadCustomPolicies (specification SpecLoader).            *)
(***************************************************************************)
\* what a module with a single export, or a JSON document, declares
Exported(file) ==
  IF file.default.t = "array" THEN file.default.v
  ELSE IF file.default.t = "object" THEN file.default.v["policies"].v
  ELSE file.policies.v

IsModulePath(filePath) ==
  endsWith(filePath, ".js") \/ endsWith(filePath, ".mjs") \/ endsWith(filePath, ".ts")

\* a non-null object with the six fields, of the types and values required
WellFormed(candidate) ==
  /\ candidate.t = "object"
  /\ {"id", "name", "description", "category", "severity", "evaluate"}
       \subseteq DOMAIN candidate.v
  /\ candidate.v["id"].t = "string"
  /\ candidate.v["name"].t = "string"
  /\ candidate.v["evaluate"].t = "function"
  /\ candidate.v["severity"] \in {Str("error"), Str("warning"), Str("info")}
  /\ candidate.v["category"] \in
       {Str("cost"), Str("security"), Str("compliance"), Str("tagging"), Str("naming")}

\* C14: loadCustomPolicies on a module returns a rule list only if every
\* exported candidate is a well-formed rule, and then it returns one rule per
\* candidate; if some candidate is not, the load fails with a ConfigError
\* that carries the file's path and returns no rule of the file.
C14_AllOrNothing ==
  (loaderCall.returned /\ IsModulePath(loaderCall.filePath)) =>
    LET exported == Exported(loaderCall.file)
        wellFormed == \A i \in 1..Len(exported) : WellFormed(exported[i])
    IN /\ loaderCall.result.ok => wellFormed
       /\ loaderCall.result.ok =>
            /\ Len(loaderCall.result.policies) = Len(exported)
            /\ \A i \in 1..Len(exported) :
                 loaderCall.result.policies[i].id = exported[i].v["id"].v
       /\ ~wellFormed =>
            /\ ~loaderCall.result.ok
            /\ loaderCall.result.configPath = loaderCall.filePath
            /\ loaderCall.result.policies = <<>>

\* The load of a module whose first candidate is well-formed and whose
\* second has a category outside the five has failed.
C14_Witness ==
  /\ loaderCall.returned
  /\ loaderCall.filePath = "policies/pci.mjs"
  /\ Len(Exported(loaderCall.file)) = 2
  /\ Exported(loaderCall.file)[1] = CustomS3Owner
  /\ Exported(loaderCall.file)[2] = With(CustomS3Owner, "category", Str("performance"))
  /\ ~loaderCall.result.ok
  /\ loaderCall.result.configPath = "policies/pci.mjs"

\* C15: loading a JSON document whose entries are rules in everything but
\* the evaluate function, which a document cannot carry, succeeds.
C15_DocumentAccepted ==
  (/\ loaderCall.returned
   /\ endsWith(loaderCall.filePath, ".json")
   /\ \A i \in 1..Len(Exported(loaderCall.file)) :
        /\ Exported(loaderCall.file)[i].t = "object"
        /\ "evaluate" \notin DOMAIN Exported(loaderCall.file)[i].v
        /\ WellFormed(With(Exported(loaderCall.file)[i], "evaluate", Fn("none"))))
    => loaderCall.result.ok

(***************************************************************************)
(* Properties of the validate command's configuration and exit             *)
(* (specification SpecCommand).                                            *)
(***************************************************************************)
\* C16: a run whose configuration file sets severity.failOn, and whose
\* command line names no threshold of its own, decides with that threshold:
\* with failOn = warning it passes only without errors and warnings, with
\* failOn = info only without any violation.
C16_FailOnFromConfig ==
  (/\ pc.stage = "exit"
   /\ Len(fileResults) > 0
   /\ options.config.named
   /\ options.severity = Undef) =>
    LET failOn == options.config.document.severity.failOn
        counts == summary.violationsBySeverity
    IN /\ (failOn = Str("warning") /\ counts.warning > 0) => ~summary.passed
       /\ (failOn = Str("info") /\ counts.info > 0) => ~summary.passed

\* C17: the command exits with 0 exactly when the run completed and passed,
\* with 1 when validation ran and failed, and with another code when it
\* stopped on a setup error such as finding no file.
C17_ExitCodes ==
  pc.stage = "exit" =>
    LET ran == Len(fileResults) > 0
    IN /\ pc.code = 0 <=> (ran /\ summary.passed)
       /\ (ran /\ ~summary.passed) => pc.code = 1
       /\ ~ran => pc.code \notin {0, 1}

\* C20: in a run whose configuration file carries a frameworks list, a rule
\* that matches none of the listed frameworks is not evaluated, as under
\* --framework with the same names: every violation of the run is of a rule
\* that matches.
C20_ConfigFrameworks ==
  (/\ pc.stage # "idle"
   /\ options.config.named
   /\ options.config.document.frameworks.present
   /\ Len(options.config.document.frameworks.list) > 0) =>
    LET listed == options.config.document.frameworks.list
        upper == [i \in 1..Len(listed) |-> toUpperCase(listed[i])]
    IN \A f \in 1..Len(fileResults) :
         \A v \in 1..Len(fileResults[f].violations) :
           \E r \in 1..Len(defaultPolicies) :
             /\ defaultPolicies[r].id = fileResults[f].violations[v].ruleId
             /\ MatchesFramework(defaultPolicies[r], upper)

(***************************************************************************)
(* Properties of the framework metadata of the built-in catalog            *)
(* (specification Spec).                                                   *)
(***************************************************************************)
\* C18: on an engine with no configuration and no custom rule, under the
\* framework filter HIPAA, PCI-DSS or PCI, encryption-at-rest is among the
\* resolved rules, and validating a database instance without an encryption
\* indicator reports a violation of it.
C18_EncryptionUnderFilter ==
  (/\ config = ValidationConfig(Absent, Absent, NoExclude)
   /\ customPoliciesLoaded = <<>>
   /\ frameworkFilter.present
   /\ frameworkFilter.list \in {<<"HIPAA">>, <<"PCI-DSS">>, <<"PCI">>}) =>
    /\ "encryption-at-rest" \in Ids(policies)
    /\ (lastCall.op = "validateResources" /\ InList(lastCall.input, Database)) =>
         \E v \in 1..Len(lastCall.violations) :
           lastCall.violations[v].ruleId = "encryption-at-rest"

FrameworkRuleIds ==
  {id \in Ids(defaultPolicies) :
     \/ startsWith(id, "gdpr-") \/ startsWith(id, "hipaa-")
     \/ startsWith(id, "pci-") \/ startsWith(id, "soc2-")}

\* C19: every built-in rule of a framework (gdpr-, hipaa-, pci-, soc2-) is
\* disabled and carries a non-empty frameworks list, and on an engine
\* without custom rules getAvailableFrameworks names HIPAA, PCI-DSS, GDPR,
\* SOC2 and AWS Well-Architected.
C19_FrameworkMetadata ==
  /\ \A i \in 1..Len(defaultPolicies) :
       defaultPolicies[i].id \in FrameworkRuleIds =>
         /\ ~defaultPolicies[i].enabled
         /\ defaultPolicies[i].frameworks.defined
         /\ Len(defaultPolicies[i].frameworks.list) > 0
  /\ (lastCall.op = "getAvailableFrameworks" /\ customPoliciesLoaded = <<>>) =>
       {"HIPAA", "PCI-DSS", "GDPR", "SOC2", "AWS Well-Architected"}
         \subseteq Range(lastCall.result)

(***************************************************************************)
(* The example resources on a default engine (specification Spec).         *)
(***************************************************************************)
\* an engine with an empty configuration, no custom rule and no filter
IsDefaultEngine ==
  /\ config = ValidationConfig(Absent, Absent, NoExclude)
  /\ customPoliciesLoaded = <<>>
  /\ ~frameworkFilter.present

\* the last call validated this one resource on a default engine
ValidatedAlone(resource) ==
  /\ IsDefaultEngine
  /\ lastCall.op = "validateResources"
  /\ lastCall.input = <<resource>>

\* the violations of the last call, as <<ruleId, severity>>
Reported ==
  [v \in 1..Len(lastCall.violations) |->
     <<lastCall.violations[v].ruleId, lastCall.violations[v].severity>>]

\* C21: on a default engine the bucket PublicBucket, which has no property
\* but its name, yields exactly two violations, a required-tags warning and
\* a naming-convention info, and no error.
C21_PublicBucket ==
  ValidatedAlone(PublicBucket) =>
    /\ ~lastCall.threw
    /\ Len(Reported) = 2
    /\ Range(Reported) = {<<"required-tags", "warning">>, <<"naming-convention", "info">>}

\* C22: on a default engine the publicly accessible database instance with
\* all required tags yields exactly one violation, the no-public-access
\* error.
C22_Database ==
  ValidatedAlone(Database) =>
    /\ ~lastCall.threw
    /\ Reported = <<(<<"no-public-access", "error">>)>>

\* C23: on a default engine the instance web_server of type t2.xlarge with
\* only a Name tag yields exactly three violations, in this order: a
\* required-tags warning that lists Environment, Owner and Project, a
\* naming-convention info and a cost-large-instance warning.
C23_WebServer ==
  ValidatedAlone(WebServer) =>
    /\ ~lastCall.threw
    /\ Reported = << <<"required-tags", "warning">>, <<"naming-convention", "info">>,
                     <<"cost-large-instance", "warning">> >>
    /\ \A tag \in {"Environment", "Owner", "Project"} :
         includes(lastCall.violations[1].message, tag)

\* The instance has been validated alone on a default engine and three
\* violations were returned.
C23_Witness ==
  /\ ValidatedAlone(WebServer)
  /\ Len(lastCall.violations) = 3
  /\ lastCall.violations[1].message = "Resource is missing tags: Environment, Owner, Project"

(***************************************************************************)
(* The resolved rule list as a function of the engine's other fields       *)
(* (specification Spec).                                                   *)
(***************************************************************************)
\* the rules of the paths, file after file
RECURSIVE RulesOf(_)
RulesOf(policyPaths) ==
  IF Len(policyPaths) = 0 THEN <<>>
  ELSE loadCustomPolicies(Head(policyPaths)).policies \o RulesOf(Tail(policyPaths))

\* merge, then framework filter, then policies.enabled, then policies.disabled
Resolution ==
  LET merged == IF Len(customPoliciesLoaded) = 0 THEN defaultPolicies
                ELSE mergePolicies(defaultPolicies, customPoliciesLoaded)
      inFramework(rule) ==
        /\ rule.frameworks.defined
        /\ \E i \in 1..Len(rule.frameworks.list), j \in 1..Len(frameworkFilter.list) :
             includes(toUpperCase(rule.frameworks.list[i]), frameworkFilter.list[j])
      listed(rule) == InList(config.policies.enabled.list, rule.id)
      struck(rule) == ~InList(config.policies.disabled.list, rule.id)
      filtered == IF frameworkFilter.present /\ Len(frameworkFilter.list) > 0
                  THEN SelectSeq(merged, inFramework) ELSE merged
      allowed == IF config.policies.enabled.present
                 THEN SelectSeq(filtered, listed) ELSE filtered
  IN IF config.policies.disabled.present THEN SelectSeq(allowed, struck) ELSE allowed

\* C24: in every state the resolved rule list is the resolution (merge,
\* framework filter, enabled list, disabled list) of the built-in catalog
\* with the custom rules now loaded, the filter now set and the
\* configuration; and the custom rules loaded after a successful load are
\* those of the paths of that call and no others.
C24_NeverStale ==
  /\ policies = Resolution
  /\ (lastCall.op = "loadCustomPoliciesFromFiles" /\ ~lastCall.rejected) =>
       customPoliciesLoaded = RulesOf(lastCall.policyPaths)

\* A framework filter has been set on an engine that holds custom rules and
\* an enabled list, and a custom rule is all that is resolved.
C24_Witness ==
  /\ lastCall.op = "setFrameworkFilter"
  /\ Len(frameworkFilter.list) > 0
  /\ Len(customPoliciesLoaded) > 0
  /\ config.policies.enabled.present
  /\ Len(policies) > 0
  /\ Len(policies) < Len(defaultPolicies)

\* the options.framework of the run as setFrameworkFilter stores it
RunFilter ==
  IF Len(options.framework) > 0
  THEN Some([i \in 1..Len(options.framework) |-> toUpperCase(options.framework[i])])
  ELSE Absent

\* C25: in a validate run the engine does not change while the per-file
\* tasks are running, and every task that has run validateResources ran it
\* against the one rule list that is the resolution with the custom rules of
\* options.policies loaded and the filter of options.framework set, in
\* whatever order the parses resolve.
C25_SameRules ==
  [][/\ pc.stage = "tasks" => engine' = engine /\ policies = Resolution
     /\ \A i \in 1..Len(tasks'.state) :
          tasks'.state[i] # "pending" =>
            /\ tasks'.rules[i] = policies'
            /\ customPoliciesLoaded' = RulesOf(options.policies)
            /\ frameworkFilter' = RunFilter]_vars

C25_Witness ==
  /\ pc.stage = "tasks"
  /\ tasks.settled = <<2, 1>>
  /\ Len(customPoliciesLoaded) > 0
  /\ frameworkFilter.present
  /\ Len(tasks.rules[1]) > 0

\* Promise.all has resolved: the command is in or past the aggregation loop
Resolved == pc.stage \in {"aggregate", "decide", "exit"} /\ Len(fileResults) > 0

\* the loop has ended
Aggregated == pc.stage \in {"decide", "exit"} /\ Len(fileResults) > 0

\* what the task of the i-th discovered file returns, whenever it runs
TaskValue(i) == FileResult(tasks.files[i], policies, config)

RECURSIVE Flatten(_)
Flatten(lists) == IF Len(lists) = 0 THEN <<>> ELSE Head(lists) \o Flatten(Tail(lists))

\* the violations of the file results in list
ViolationsIn(list) == Flatten([k \in 1..Len(list) |-> list[k].violations])

RECURSIVE SumOf(_)
SumOf(numbers) == IF Len(numbers) = 0 THEN 0 ELSE Head(numbers) + SumOf(Tail(numbers))

\* the place of the first discovered file with a violation, the last place if
\* there is none
FirstViolating ==
  LET violating == {i \in 1..Len(tasks.files) : Len(TaskValue(i).violations) > 0}
  IN IF violating = {} THEN Len(tasks.files)
     ELSE CHOOSE i \in violating : \A j \in violating : i <= j

\* C26: nothing is written to the summary or to results while a per-file task
\* is outstanding; what Promise.all hands over is the value of each task at
\* the place of its file in discovery order, whatever the order in which the
\* tasks settled; and once the loop has ended the number of aggregated
\* files, results, totalResources, totalViolations and both breakdown maps
\* are functions of the discovered files, the options and the rule list
\* alone, as is passed once it is decided.
C26_OrderIndependent ==
  /\ pc.stage = "tasks" => summary = NewSummary(Len(tasks.files)) /\ fileResults = <<>>
  /\ Resolved =>
       /\ \A i \in 1..Len(tasks.files) : tasks.state[i] = "fulfilled"
       /\ fileResults = [i \in 1..Len(tasks.files) |-> TaskValue(i)]
       /\ \A k \in 1..Len(summary.results) : summary.results[k].file = tasks.files[k].file
  /\ Aggregated =>
       LET n == IF options.failFast THEN FirstViolating ELSE Len(tasks.files)
           expected == [i \in 1..n |-> TaskValue(i)]
           found == ViolationsIn(expected)
       IN /\ summary.results = expected
          /\ summary.totalResources = SumOf([i \in 1..n |-> expected[i].resourceCount])
          /\ summary.totalViolations = Len(found)
          /\ \A severity \in DOMAIN summary.violationsBySeverity :
               summary.violationsBySeverity[severity] =
                 Cardinality({k \in 1..Len(found) : found[k].severity = severity})
          /\ \A category \in DOMAIN summary.violationsByCategory :
               summary.violationsByCategory[category] =
                 Cardinality({k \in 1..Len(found) : found[k].category = category})
          /\ pc.stage = "exit" =>
               summary.passed = shouldPass(summary.violationsBySeverity, failOnSeverity(options))

C26_Witness ==
  /\ pc.stage = "exit" /\ Len(fileResults) = 2
  /\ tasks.settled = <<2, 1>>
  /\ Len(summary.results) = 2
  /\ Len(summary.results[1].violations) # Len(summary.results[2].violations)
  /\ summary.totalViolations > 0

TaskCall(i) == validateResourcesCall(policies, config, tasks.files[i].resources)

\* a violation was returned to validateResources before the call that threw
FoundBeforeThrow(i) ==
  LET call == TaskCall(i)
  IN /\ call.threw
     /\ \E k \in 1..(Len(call.evaluated) - 1) :
          Evaluate(policies[call.evaluated[k].policy],
                   tasks.files[i].resources[call.evaluated[k].resource]).kind = "violation"

\* C28: a task whose validateResources call has a rule throw is rejected and
\* holds no value, no violation list either, whatever the rules before the
\* throwing one returned; a task without a throw is fulfilled with the
\* violations of the call; and once a task is rejected the run never
\* aggregates: results and summary stay as they were created and the command
\* exits with code 1.
C28_NotIsolated ==
  /\ \A i \in 1..Len(tasks.state) :
       tasks.state[i] # "pending" =>
         IF TaskCall(i).threw
         THEN tasks.state[i] = "rejected" /\ tasks.value[i] = NoValue
         ELSE tasks.state[i] = "fulfilled" /\ tasks.value[i].violations = TaskCall(i).violations
  /\ (\E i \in 1..Len(tasks.state) : tasks.state[i] = "rejected") =>
       /\ pc.stage \in {"tasks", "exit"}
       /\ fileResults = <<>>
       /\ summary = NewSummary(Len(tasks.files))
       /\ pc.stage = "exit" => pc.code = 1

C28_Witness ==
  /\ pc.stage = "exit" /\ pc.code = 1
  /\ \E i, j \in 1..Len(tasks.state) :
       /\ tasks.state[i] = "rejected" /\ FoundBeforeThrow(i)
       /\ tasks.state[j] = "fulfilled" /\ tasks.value[j].passed

\* C29: whenever the command has ended with summary.passed true under the
\* threshold error, no discovered file has a resource for which a rule of
\* the resolved list returns an error-severity violation, failFast or not.
C29_PassingIsSound ==
  (/\ pc.stage = "exit" /\ Len(fileResults) > 0
   /\ summary.passed
   /\ failOnSeverity(options) = "error") =>
    \A i \in 1..Len(tasks.files) :
      \A k \in 1..Len(TaskValue(i).violations) :
        TaskValue(i).violations[k].severity # "error"

\* C30: whenever get has returned, a result other than null is the parse of
\* the content that this get read from the file; and with the cache disabled
\* get has returned null and the cache directory holds nothing.
C30_NeverStale ==
  /\ cache.getCall.pc = "returned" =>
       /\ cache.getCall.result # Null =>
            /\ cache.getCall.read.exists
            /\ cache.getCall.result.resources =
                 ParsedIacFile(CachedPath, cache.getCall.read.content).resources
       /\ ~cache.enabled => cache.getCall.result = Null
  /\ ~cache.enabled => cache.cacheDir = {}
====
